---- MODULE Spec2Model ----
(***************************************************************************)
(* Verification model of the MEV simulator's strategy layer:               *)
(*   - TokenPair      (constant-product pool math, src/unnamed/part_002)   *)
(*   - ArbitragePath  (path validity,              src/unnamed/part_002)   *)
(*   - StrategyStats  (running statistics,         src/unnamed/part_003)   *)
(*                                                                         *)
(* A C++ double is modelled by the record [k, n, d]:                       *)
(*   k = "fin"  the exact rational n/d (d > 0, lowest terms);              *)
(*   k = "big"  (double)(2^64 - 1), a positive finite value above every    *)
(*              rational of the model (the wrapped uint64 operand);        *)
(*   k = "max"  std::numeric_limits<double>::max();                        *)
(*   k = "inf"  +infinity;   k = "nan"  NaN.                               *)
(* Arithmetic on "fin" values is exact: IEEE-754 rounding of the 53-bit    *)
(* mantissa is not part of the model, division by zero and the special     *)
(* values are.                                                             *)
(***************************************************************************)
EXTENDS Integers, Sequences, FiniteSets, TLC

VARIABLES
    pair,       \* the TokenPair under test: reserve0, reserve1, fee_percent
    price,      \* result of the last calculate_price() call, or NoValue
    calls,      \* the calculate_output_amount() calls made so far
    path,       \* the ArbitragePath under test
    valid,      \* result of the last is_valid() call, or NoValue
    stats,      \* the StrategyStats object
    profits,    \* history: the profit_eth arguments of update_success, in order
    times,      \* history: the execution_time_us arguments of both updates
    attempts,   \* history: number of execution attempts made through update_metrics
    resets,     \* history: consecutive reset() calls just made, and what preceded
    sim,        \* the Simulator object: state_, the request flags, the main loop
    simHist,    \* history: the last Simulator operation and the state it found
    opp,        \* the Opportunity under test
    oppCall,    \* the last validation call made on opp, and its result
    logger,     \* the Logger singleton: initialized_, config_, file_stream_, mutex_
    logThreads, \* per thread: its position in the Logger call it is making
    logHist,    \* history: a shutdown() call has exited; an initialize() was ignored
    cfg,        \* the ConfigManager object: its config, and its last explicit load
    cfgFile,    \* the content of config/default_config.json, or "absent"
    cfgCall,    \* the last ConfigManager call: its input, the config it found, its outcome
    mainProc,   \* main(): its position, the shutdown flag, g_simulator and the calls made
    rotation    \* the log file of the Logger: its size, the files on disk, the last write

vars == <<pair, price, calls, path, valid, stats, profits, times, attempts, resets,
          sim, simHist, opp, oppCall, logger, logThreads, logHist,
          cfg, cfgFile, cfgCall,
          mainProc,
          rotation>>

poolVars  == <<pair, price, calls>>
pathVars  == <<path, valid>>
statsVars == <<stats, profits, times, attempts, resets>>
simVars   == <<sim, simHist>>
oppVars   == <<opp, oppCall>>
logVars   == <<logger, logThreads, logHist>>
cfgVars   == <<cfg, cfgFile, cfgCall>>
mainVars  == <<mainProc>>
rotVars   == <<rotation>>

\* what the operations of one subsystem leave alone
notPoolVars  == <<pathVars, statsVars, simVars, oppVars, logVars, cfgVars, mainVars, rotVars>>
notPathVars  == <<poolVars, statsVars, simVars, oppVars, logVars, cfgVars, mainVars, rotVars>>
notStatsVars == <<poolVars, pathVars, simVars, oppVars, logVars, cfgVars, mainVars, rotVars>>
notSimVars   == <<poolVars, pathVars, statsVars, oppVars, logVars, cfgVars, mainVars, rotVars>>
notOppVars   == <<poolVars, pathVars, statsVars, simVars, logVars, cfgVars, mainVars, rotVars>>
notLogVars   == <<poolVars, pathVars, statsVars, simVars, oppVars, cfgVars, mainVars, rotVars>>
notCfgVars   == <<poolVars, pathVars, statsVars, simVars, oppVars, logVars, mainVars, rotVars>>
notMainVars  == <<poolVars, pathVars, statsVars, simVars, oppVars, logVars, cfgVars, rotVars>>
notRotVars   == <<poolVars, pathVars, statsVars, simVars, oppVars, logVars, cfgVars, mainVars>>

-----------------------------------------------------------------------------
(* Bounds of the model *)

MaxReserve == 3     \* reserves range over 0..MaxReserve
MaxInput   == 3     \* fresh input amounts range over 0..MaxInput
MaxCalls   == 2     \* calculate_output_amount calls recorded per pool
MaxTokens  == 4     \* longest token sequence of a path
MaxPairs   == 2     \* most pools of a path
MaxUpdates == 3     \* update_success / update_failure calls between two resets
MaxProfit  == 3     \* profits range over {-1} \cup 1..MaxProfit
MaxTime    == 2     \* execution times range over 0..MaxTime
MaxResets  == 2     \* consecutive reset() calls followed
MaxTicks   == 2     \* ticks of the main loop followed in one run
MaxGasPrice == 2    \* gas prices and gas limits range over 0..MaxGasPrice

NoValue == [k |-> "none", n |-> 0, d |-> 1]

-----------------------------------------------------------------------------
(* double arithmetic *)

RECURSIVE Gcd(_, _)
Gcd(a, b) == IF b = 0 THEN a ELSE Gcd(b, a % b)

Abs(a) == IF a < 0 THEN -a ELSE a

\* the rational n/d (d # 0) in lowest terms with a positive denominator
Fin(n, d) ==
    LET g == Gcd(Abs(n), Abs(d))
        s == IF d < 0 THEN -1 ELSE 1
    IN  [k |-> "fin", n |-> s * (n \div g), d |-> s * (d \div g)]

D(i)    == [k |-> "fin", n |-> i, d |-> 1]     \* an integer as a double
DInf    == [k |-> "inf", n |-> 0, d |-> 1]
DNaN    == [k |-> "nan", n |-> 0, d |-> 1]
DBig    == [k |-> "big", n |-> 0, d |-> 1]
DBL_MAX == [k |-> "max", n |-> 0, d |-> 1]

\* an ordinary value: a rational, none of the special values
IsFin(x) == x.k = "fin"

\* rank of the positive special values in the order of the doubles
Rank(x) == CASE x.k = "big" -> 1 [] x.k = "max" -> 2 [] x.k = "inf" -> 3

\* a < b on doubles; every comparison with NaN is false
DLt(a, b) ==
    CASE a.k = "nan" \/ b.k = "nan" -> FALSE
      [] a.k = "fin" /\ b.k = "fin" -> a.n * b.d < b.n * a.d
      [] a.k = "fin" /\ b.k # "fin" -> TRUE
      [] a.k # "fin" /\ b.k = "fin" -> FALSE
      [] OTHER                      -> Rank(a) < Rank(b)

DEq(a, b) == a.k # "nan" /\ b.k # "nan" /\ a = b
DLe(a, b) == DLt(a, b) \/ DEq(a, b)

\* The special values arise only as non-negative operands (a count, a
\* latency, an average of latencies); the cases below are those of IEEE-754
\* for such operands, and no other case is defined.

\* a + b
DAdd(a, b) ==
    CASE a.k = "nan" \/ b.k = "nan" -> DNaN
      [] a.k = "fin" /\ b.k = "fin" ->
            LET g == Gcd(a.d, b.d)
            IN  Fin(a.n * (b.d \div g) + b.n * (a.d \div g), (a.d \div g) * b.d)
      [] a.k = "inf" \/ b.k = "inf" -> DInf
      [] a.k = "big" /\ b.k = "fin" -> DBig
      [] a.k = "fin" /\ b.k = "big" -> DBig

\* a - b, for a rational b
DSub(a, b) == DAdd(a, [b EXCEPT !.n = -b.n])

\* a * b
DMul(a, b) ==
    CASE a.k = "nan" \/ b.k = "nan" -> DNaN
      [] a.k = "fin" /\ b.k = "fin" ->
            LET g1 == Gcd(Abs(a.n), b.d)
                g2 == Gcd(Abs(b.n), a.d)
            IN  Fin((a.n \div g1) * (b.n \div g2), (a.d \div g2) * (b.d \div g1))
      [] a.k = "inf" /\ b.k = "fin" /\ b.n >= 0 -> IF b.n = 0 THEN DNaN ELSE DInf
      [] a.k = "fin" /\ b.k = "inf" /\ a.n >= 0 -> IF a.n = 0 THEN DNaN ELSE DInf
      [] a.k = "inf" /\ b.k \in {"big", "inf"} -> DInf
      [] a.k = "big" /\ b.k = "inf"            -> DInf
      [] a.k = "big" /\ b.k = "fin" /\ b.n >= 0 -> IF b.n = 0 THEN D(0) ELSE DBig
      [] a.k = "fin" /\ b.k = "big" /\ a.n >= 0 -> IF a.n = 0 THEN D(0) ELSE DBig

\* a / b: x/0 is +inf for x > 0 and NaN for x = 0
DDiv(a, b) ==
    CASE a.k = "nan" \/ b.k = "nan" -> DNaN
      [] a.k = "fin" /\ b.k = "fin" /\ b.n # 0 ->
            LET g1 == Gcd(Abs(a.n), Abs(b.n))
                g2 == Gcd(a.d, b.d)
            IN  Fin((a.n \div g1) * (b.d \div g2), (a.d \div g2) * (b.n \div g1))
      [] a.k = "fin" /\ b.k = "fin" /\ b.n = 0 /\ a.n >= 0 ->
            IF a.n = 0 THEN DNaN ELSE DInf
      [] a.k \in {"big", "inf"} /\ b.k = "fin" /\ b.n = 0 -> DInf
      [] a.k = "inf" /\ b.k = "fin" /\ b.n > 0 -> DInf
      [] a.k = "big" /\ b.k = "fin" /\ b.n > 0 -> DBig
      [] a.k \in {"fin", "big"} /\ b.k = "inf" -> D(0)
      [] a.k = "inf" /\ b.k = "inf"            -> DNaN

\* std::min(a, b) == (b < a) ? b : a
StdMin(a, b) == IF DLt(b, a) THEN b ELSE a

\* std::max(a, b) == (a < b) ? b : a
StdMax(a, b) == IF DLt(a, b) THEN b ELSE a

-----------------------------------------------------------------------------
(* TokenPair *)

\* fee_percent values of the pools examined, all in [0,100)
FeePercents == {D(0), D(10), D(25), D(50), D(99)}

\* struct TokenPair: the members the two methods read
TokenPairs ==
    [reserve0    : {D(i) : i \in 0..MaxReserve},
     reserve1    : {D(i) : i \in 0..MaxReserve},
     fee_percent : FeePercents]

\* TokenPair::calculate_price with the reserves the wrong way round
calculate_price_inverse(p) ==
    IF DEq(p.reserve1, D(0)) THEN D(0) ELSE DDiv(p.reserve1, p.reserve0)

\* double TokenPair::calculate_price() const
calculate_price(p) ==
    IF DEq(p.reserve1, D(0)) THEN D(0) ELSE DDiv(p.reserve0, p.reserve1)

\* calculate_output_amount with the bought reserve taken from the wrong side
calculate_output_amount_wrong_reserve(p, input_amount, is_token0_to_token1) ==
    IF DEq(p.reserve0, D(0)) \/ DEq(p.reserve1, D(0)) THEN D(0)
    ELSE LET fee_multiplier == DSub(D(1), DDiv(p.fee_percent, D(100)))
             input_with_fee == DMul(input_amount, fee_multiplier)
         IN  IF is_token0_to_token1
             THEN DDiv(DMul(input_with_fee, p.reserve0), DAdd(p.reserve0, input_with_fee))
             ELSE DDiv(DMul(input_with_fee, p.reserve1), DAdd(p.reserve1, input_with_fee))

\* calculate_output_amount with the fee added to the input instead of deducted
calculate_output_amount_fee_added(p, input_amount, is_token0_to_token1) ==
    IF DEq(p.reserve0, D(0)) \/ DEq(p.reserve1, D(0)) THEN D(0)
    ELSE LET fee_multiplier == DAdd(D(1), DDiv(p.fee_percent, D(100)))
             input_with_fee == DMul(input_amount, fee_multiplier)
         IN  IF is_token0_to_token1
             THEN DDiv(DMul(input_with_fee, p.reserve1), DAdd(p.reserve0, input_with_fee))
             ELSE DDiv(DMul(input_with_fee, p.reserve0), DAdd(p.reserve1, input_with_fee))

\* calculate_output_amount without its zero-reserve guards
calculate_output_amount_unguarded(p, input_amount, is_token0_to_token1) ==
    LET fee_multiplier == DSub(D(1), DDiv(p.fee_percent, D(100)))
        input_with_fee == DMul(input_amount, fee_multiplier)
    IN  IF is_token0_to_token1
        THEN DDiv(DMul(input_with_fee, p.reserve1), DAdd(p.reserve0, input_with_fee))
        ELSE DDiv(DMul(input_with_fee, p.reserve0), DAdd(p.reserve1, input_with_fee))

\* double TokenPair::calculate_output_amount(double input_amount,
\*                                           bool is_token0_to_token1) const
calculate_output_amount(p, input_amount, is_token0_to_token1) ==
    IF is_token0_to_token1
    THEN IF DEq(p.reserve0, D(0)) \/ DEq(p.reserve1, D(0)) THEN D(0)
         ELSE LET fee_multiplier == DSub(D(1), DDiv(p.fee_percent, D(100)))
                  input_with_fee == DMul(input_amount, fee_multiplier)
              IN  DDiv(DMul(input_with_fee, p.reserve1), DAdd(p.reserve0, input_with_fee))
    ELSE IF DEq(p.reserve1, D(0)) \/ DEq(p.reserve0, D(0)) THEN D(0)
         ELSE LET fee_multiplier == DSub(D(1), DDiv(p.fee_percent, D(100)))
                  input_with_fee == DMul(input_amount, fee_multiplier)
              IN  DDiv(DMul(input_with_fee, p.reserve0), DAdd(p.reserve1, input_with_fee))

\* the record of one calculate_output_amount call; srcInput/srcDir name the
\* call whose output was passed as this call's input (NoValue: a fresh input)
Call(dir, input, output, srcInput, srcDir) ==
    [dir |-> dir, input |-> input, output |-> output,
     srcInput |-> srcInput, srcDir |-> srcDir]

PoolIdle == pair \in TokenPairs /\ price = NoValue /\ calls = {}

PoolFixed ==
    /\ pair = [reserve0 |-> D(1), reserve1 |-> D(1), fee_percent |-> D(0)]
    /\ price = NoValue
    /\ calls = {}

\* a caller evaluates pair.calculate_price()
CalculatePrice ==
    /\ price' = calculate_price(pair)
    /\ UNCHANGED <<pair, calls, notPoolVars>>

\* a caller evaluates pair.calculate_output_amount(x, dir) on a fresh amount
CalculateOutputAmount ==
    /\ Cardinality(calls) < MaxCalls
    /\ \E i \in 0..MaxInput, dir \in BOOLEAN :
          calls' = calls \cup
              {Call(dir, D(i), calculate_output_amount(pair, D(i), dir), NoValue, dir)}
    /\ UNCHANGED <<pair, price, notPoolVars>>

\* a caller swaps back: the output of an earlier call is the input of a new one
CalculateOutputAmountOfOutput ==
    /\ Cardinality(calls) < MaxCalls
    /\ \E c \in calls, dir \in BOOLEAN :
          calls' = calls \cup
              {Call(dir, c.output, calculate_output_amount(pair, c.output, dir),
                    c.input, c.dir)}
    /\ UNCHANGED <<pair, price, notPoolVars>>

PoolNext == CalculatePrice \/ CalculateOutputAmount \/ CalculateOutputAmountOfOutput

-----------------------------------------------------------------------------
(* ArbitragePath *)

Tokens == {"WETH", "USDC", "DAI"}

\* the sequences over S of length at most n
SeqUpTo(S, n) == UNION {[1..m -> S] : m \in 0..n}

\* struct ArbitragePath: tokens, pairs and expected_profit_eth
\* (required_input_eth and gas_estimate are read by no method)
ArbitragePaths ==
    [tokens              : SeqUpTo(Tokens, MaxTokens),
     pairs               : SeqUpTo({[reserve0 |-> D(1), reserve1 |-> D(1),
                                     fee_percent |-> D(0)]}, MaxPairs),
     expected_profit_eth : {D(-1), D(0), D(1)}]

\* bool ArbitragePath::is_valid() const
is_valid(p) ==
    /\ Len(p.tokens) >= 3
    /\ Len(p.pairs) >= 2
    /\ DLt(D(0), p.expected_profit_eth)

NotCalled == [called |-> FALSE, result |-> FALSE]

PathIdle == path \in ArbitragePaths /\ valid = NotCalled

PathFixed ==
    /\ path = [tokens |-> <<>>, pairs |-> <<>>, expected_profit_eth |-> D(0)]
    /\ valid = NotCalled

\* a caller evaluates path.is_valid()
IsValid ==
    /\ valid' = [called |-> TRUE, result |-> is_valid(path)]
    /\ UNCHANGED <<path, notPathVars>>

PathNext == IsValid

-----------------------------------------------------------------------------
(* StrategyStats *)

\* a uint64_t counter converted to double
U64ToDouble(u) == D(u)

\* (u - 1) on uint64_t, converted to double: 0 - 1 wraps to 2^64 - 1
U64DecToDouble(u) == IF u = 0 THEN DBig ELSE D(u - 1)

\* struct StrategyStats: the default member initialisers
StrategyStatsInit ==
    [opportunities_detected   |-> 0,
     opportunities_executed   |-> 0,
     successful_executions    |-> 0,
     failed_executions        |-> 0,
     total_profit_eth         |-> D(0),
     total_gas_used_eth       |-> D(0),
     avg_execution_time_us    |-> D(0),
     success_rate             |-> D(0),
     avg_detection_latency_us |-> D(0),
     avg_execution_latency_us |-> D(0),
     min_execution_latency_us |-> DBL_MAX,
     max_execution_latency_us |-> D(0),
     min_profit_eth           |-> DBL_MAX,
     max_profit_eth           |-> D(0),
     avg_profit_eth           |-> D(0)]

\* update_success with total_profit_eth assigned (=) instead of accumulated (+=)
update_success_overwrites_total(s, profit_eth, gas_used_eth, execution_time_us) ==
    LET successful_executions == s.successful_executions + 1
        total_profit_eth      == profit_eth
    IN  [s EXCEPT
          !.successful_executions = successful_executions,
          !.total_profit_eth      = total_profit_eth,
          !.total_gas_used_eth    = DAdd(s.total_gas_used_eth, gas_used_eth),
          !.avg_execution_time_us =
              DDiv(DAdd(DMul(s.avg_execution_time_us,
                             U64DecToDouble(successful_executions)),
                        execution_time_us),
                   U64ToDouble(successful_executions)),
          !.avg_profit_eth        =
              DDiv(total_profit_eth, U64ToDouble(successful_executions)),
          !.min_profit_eth        = StdMin(s.min_profit_eth, profit_eth),
          !.max_profit_eth        = StdMax(s.max_profit_eth, profit_eth),
          !.min_execution_latency_us =
              StdMin(s.min_execution_latency_us, execution_time_us),
          !.max_execution_latency_us =
              StdMax(s.max_execution_latency_us, execution_time_us),
          !.success_rate          =
              DDiv(U64ToDouble(successful_executions),
                   U64ToDouble(s.opportunities_executed))]

\* void StrategyStats::update_success(double profit_eth, double gas_used_eth,
\*                                    double execution_time_us)
update_success(s, profit_eth, gas_used_eth, execution_time_us) ==
    LET successful_executions == s.successful_executions + 1
        total_profit_eth      == DAdd(s.total_profit_eth, profit_eth)
    IN  [s EXCEPT
          !.successful_executions = successful_executions,
          !.total_profit_eth      = total_profit_eth,
          !.total_gas_used_eth    = DAdd(s.total_gas_used_eth, gas_used_eth),
          !.avg_execution_time_us =
              DDiv(DAdd(DMul(s.avg_execution_time_us,
                             U64DecToDouble(successful_executions)),
                        execution_time_us),
                   U64ToDouble(successful_executions)),
          !.avg_profit_eth        =
              DDiv(total_profit_eth, U64ToDouble(successful_executions)),
          !.min_profit_eth        = StdMin(s.min_profit_eth, profit_eth),
          !.max_profit_eth        = StdMax(s.max_profit_eth, profit_eth),
          !.min_execution_latency_us =
              StdMin(s.min_execution_latency_us, execution_time_us),
          !.max_execution_latency_us =
              StdMax(s.max_execution_latency_us, execution_time_us),
          !.success_rate          =
              DDiv(U64ToDouble(successful_executions),
                   U64ToDouble(s.opportunities_executed))]

\* update_failure without its failed_executions++
update_failure_uncounted(s, execution_time_us) ==
    [s EXCEPT
      !.avg_execution_time_us =
          DDiv(DAdd(DMul(s.avg_execution_time_us,
                         U64DecToDouble(s.opportunities_executed)),
                    execution_time_us),
               U64ToDouble(s.opportunities_executed)),
      !.success_rate          =
          DDiv(U64ToDouble(s.successful_executions),
               U64ToDouble(s.opportunities_executed)),
      !.min_execution_latency_us =
          StdMin(s.min_execution_latency_us, execution_time_us),
      !.max_execution_latency_us =
          StdMax(s.max_execution_latency_us, execution_time_us)]

\* void StrategyStats::update_failure(double execution_time_us)
update_failure(s, execution_time_us) ==
    [s EXCEPT
      !.failed_executions     = s.failed_executions + 1,
      !.avg_execution_time_us =
          DDiv(DAdd(DMul(s.avg_execution_time_us,
                         U64DecToDouble(s.opportunities_executed)),
                    execution_time_us),
               U64ToDouble(s.opportunities_executed)),
      !.success_rate          =
          DDiv(U64ToDouble(s.successful_executions),
               U64ToDouble(s.opportunities_executed)),
      !.min_execution_latency_us =
          StdMin(s.min_execution_latency_us, execution_time_us),
      !.max_execution_latency_us =
          StdMax(s.max_execution_latency_us, execution_time_us)]

\* reset() that forgets to clear avg_profit_eth
reset_keeps_avg_profit(s) ==
    [StrategyStatsInit EXCEPT !.avg_profit_eth = s.avg_profit_eth]

\* void StrategyStats::reset()
reset(s) ==
    [s EXCEPT
      !.opportunities_detected   = 0,
      !.opportunities_executed   = 0,
      !.successful_executions    = 0,
      !.failed_executions        = 0,
      !.total_profit_eth         = D(0),
      !.total_gas_used_eth       = D(0),
      !.avg_execution_time_us    = D(0),
      !.success_rate             = D(0),
      !.avg_detection_latency_us = D(0),
      !.avg_execution_latency_us = D(0),
      !.min_execution_latency_us = DBL_MAX,
      !.max_execution_latency_us = D(0),
      !.min_profit_eth           = DBL_MAX,
      !.max_profit_eth           = D(0),
      !.avg_profit_eth           = D(0)]

\* enum class StrategyResult
StrategyResult ==
    {"SUCCESS", "FAILED", "NO_OPPORTUNITY", "INSUFFICIENT_PROFIT",
     "HIGH_SLIPPAGE", "GAS_TOO_HIGH", "TIMEOUT", "ERROR"}

\* BaseStrategy::update_metrics(opportunity, result, execution_time_us): the
\* attempt is counted, then exactly one of update_success / update_failure
\* records it
update_metrics(s, result, profit_eth, gas_used_eth, execution_time_us) ==
    LET counted == [s EXCEPT !.opportunities_executed = s.opportunities_executed + 1]
    IN  IF result = "SUCCESS"
        THEN update_success(counted, profit_eth, gas_used_eth, execution_time_us)
        ELSE update_failure(counted, execution_time_us)

\* the arguments passed by the callers of the model
ProfitValues == {D(-1)} \cup {D(i) : i \in 1..MaxProfit}
GasValues    == {D(1)}
TimeValues   == {D(i) : i \in 0..MaxTime}

NoResets == [count |-> 0, dirty |-> FALSE]

StatsIdle ==
    /\ stats = StrategyStatsInit
    /\ profits = <<>>
    /\ times = <<>>
    /\ attempts = 0
    /\ resets = NoResets

\* a caller invokes stats.update_success(p, g, t)
UpdateSuccess ==
    /\ Len(times) < MaxUpdates
    /\ \E p \in ProfitValues, g \in GasValues, t \in TimeValues :
          /\ stats' = update_success(stats, p, g, t)
          /\ profits' = Append(profits, p)
          /\ times' = Append(times, t)
    /\ resets' = NoResets
    /\ UNCHANGED <<attempts, notStatsVars>>

\* a caller invokes stats.update_failure(t)
UpdateFailure ==
    /\ Len(times) < MaxUpdates
    /\ \E t \in TimeValues :
          /\ stats' = update_failure(stats, t)
          /\ times' = Append(times, t)
    /\ resets' = NoResets
    /\ UNCHANGED <<profits, attempts, notStatsVars>>

\* a caller invokes stats.reset()
Reset ==
    /\ resets.count < MaxResets
    /\ stats' = reset(stats)
    /\ profits' = <<>>
    /\ times' = <<>>
    /\ attempts' = 0
    /\ resets' = [count |-> resets.count + 1,
                  dirty |-> IF resets.count = 0
                            THEN stats # StrategyStatsInit
                            ELSE resets.dirty]
    /\ UNCHANGED <<notStatsVars>>

\* an execution attempt that succeeded: update_metrics(opp, SUCCESS, t)
ExecuteSuccess ==
    /\ Len(times) < MaxUpdates
    /\ \E p \in ProfitValues, g \in GasValues, t \in TimeValues :
          /\ stats' = update_metrics(stats, "SUCCESS", p, g, t)
          /\ profits' = Append(profits, p)
          /\ times' = Append(times, t)
    /\ attempts' = attempts + 1
    /\ resets' = NoResets
    /\ UNCHANGED <<notStatsVars>>

\* an execution attempt that did not succeed: update_metrics(opp, r, t), r # SUCCESS
ExecuteFailure ==
    /\ Len(times) < MaxUpdates
    /\ \E r \in StrategyResult \ {"SUCCESS"}, t \in TimeValues :
          /\ stats' = update_metrics(stats, r, D(0), D(0), t)
          /\ times' = Append(times, t)
    /\ attempts' = attempts + 1
    /\ resets' = NoResets
    /\ UNCHANGED <<profits, notStatsVars>>

StatsNext == UpdateSuccess \/ UpdateFailure \/ Reset

StrategyNext == ExecuteSuccess \/ ExecuteFailure \/ Reset

-----------------------------------------------------------------------------
(* Simulator: lifecycle state machine.  The class declaration gives the    *)
(* states, the members and their initial values; the method bodies are     *)
(* taken from the specification's description of the lifecycle.            *)

\* enum class SimulationState
SimulationState ==
    {"INITIALIZING", "RUNNING", "PAUSED", "STOPPING", "STOPPED", "ERROR"}

\* state_ of a constructed Simulator, with state_ = RUNNING instead
InitialState_running == "RUNNING"

\* std::atomic<SimulationState> state_{SimulationState::STOPPED}
InitialState == "STOPPED"

\* a constructed Simulator: the member initialisers; the components and the
\* main thread are null unique_ptrs (components "none", loop "none")
SimulatorInit ==
    [state_           |-> InitialState,
     stop_requested_  |-> FALSE,
     pause_requested_ |-> FALSE,
     components       |-> "none",
     loop             |-> "none",
     ticks            |-> 0]

\* initialize() is entered: only from STOPPED or ERROR does it restart the machine
initialize(s) ==
    IF s.state_ \in {"STOPPED", "ERROR"}
    THEN [s EXCEPT !.state_ = "INITIALIZING", !.components = "building",
                   !.stop_requested_ = FALSE, !.pause_requested_ = FALSE,
                   !.loop = "none", !.ticks = 0]
    ELSE s

\* initialize_components() returned: initialize() has succeeded
initialize_components_ok(s) == [s EXCEPT !.components = "ready"]

\* handle_error(): a fatal fault drives the pipeline to ERROR
handle_error(s) ==
    [s EXCEPT !.state_ = "ERROR", !.components = "failed",
              !.loop = IF s.loop = "none" THEN "none" ELSE "exited"]

\* start(): INITIALIZING -> RUNNING once initialize() has succeeded, and the
\* main loop thread is created; in every other state the call changes nothing
start(s) ==
    IF s.state_ = "INITIALIZING" /\ s.components = "ready"
    THEN [s EXCEPT !.state_ = "RUNNING", !.loop = "boundary"]
    ELSE s

\* pause(): RUNNING -> PAUSED, the loop blocks at its next tick boundary
pause(s) ==
    IF s.state_ = "RUNNING"
    THEN [s EXCEPT !.state_ = "PAUSED", !.pause_requested_ = TRUE]
    ELSE s

\* resume() that also restarts a pipeline found in ERROR
resume_from_error(s) ==
    IF s.state_ \in {"PAUSED", "ERROR"}
    THEN [s EXCEPT !.state_ = "RUNNING", !.pause_requested_ = FALSE]
    ELSE s

\* resume(): PAUSED -> RUNNING, the condition variable is notified
resume(s) ==
    IF s.state_ = "PAUSED"
    THEN [s EXCEPT !.state_ = "RUNNING", !.pause_requested_ = FALSE]
    ELSE s

\* stop() that moves to STOPPED at once, without waiting for the main loop
stop_immediate(s) ==
    IF s.state_ \in {"RUNNING", "PAUSED"}
    THEN [s EXCEPT !.state_ = "STOPPED", !.stop_requested_ = TRUE]
    ELSE s

\* stop(): RUNNING or PAUSED -> STOPPING, the stop flag is set and the
\* condition variable is notified
stop(s) ==
    IF s.state_ \in {"RUNNING", "PAUSED"}
    THEN [s EXCEPT !.state_ = "STOPPING", !.stop_requested_ = TRUE]
    ELSE s

\* main_loop() at a tick boundary: leave on the stop flag, block on the pause
\* flag, otherwise start the next tick
main_loop_boundary(s) ==
    IF s.stop_requested_ THEN [s EXCEPT !.loop = "exited"]
    ELSE IF s.pause_requested_ THEN [s EXCEPT !.loop = "waiting"]
    ELSE [s EXCEPT !.loop = "tick"]

SimOps == {"none", "initialize", "initialize_components", "start", "pause",
           "resume", "stop", "main_loop", "handle_error", "wait_for_completion"}

\* op: the step just taken; before: state_ as that step found it;
\* everInitialized: some initialize() has succeeded since construction
NoSimHist == [op |-> "none", before |-> InitialState, everInitialized |-> FALSE]

SimIdle == sim = SimulatorInit /\ simHist = NoSimHist

\* the history after the step op
SimHist(op) == [simHist EXCEPT !.op = op, !.before = sim.state_]

\* a caller invokes initialize()
Initialize ==
    /\ sim' = initialize(sim)
    /\ simHist' = SimHist("initialize")
    /\ UNCHANGED notSimVars

\* the initialize() in progress completes
InitializeSucceeds ==
    /\ sim.components = "building"
    /\ sim' = initialize_components_ok(sim)
    /\ simHist' = [SimHist("initialize_components") EXCEPT !.everInitialized = TRUE]
    /\ UNCHANGED notSimVars

\* the initialize() in progress fails: a fatal fault
InitializeFails ==
    /\ sim.components = "building"
    /\ sim' = handle_error(sim)
    /\ simHist' = SimHist("handle_error")
    /\ UNCHANGED notSimVars

\* a caller invokes start()
Start ==
    /\ sim' = start(sim)
    /\ simHist' = SimHist("start")
    /\ UNCHANGED notSimVars

\* a caller invokes stop()
Stop ==
    /\ sim' = stop(sim)
    /\ simHist' = SimHist("stop")
    /\ UNCHANGED notSimVars

\* a caller invokes pause()
Pause ==
    /\ sim' = pause(sim)
    /\ simHist' = SimHist("pause")
    /\ UNCHANGED notSimVars

\* a caller invokes resume()
Resume ==
    /\ sim' = resume(sim)
    /\ simHist' = SimHist("resume")
    /\ UNCHANGED notSimVars

\* the main loop thread checks the flags between two ticks
LoopBoundary ==
    /\ sim.loop = "boundary"
    /\ sim.stop_requested_ \/ sim.pause_requested_ \/ sim.ticks < MaxTicks
    /\ sim' = main_loop_boundary(sim)
    /\ simHist' = SimHist("main_loop")
    /\ UNCHANGED notSimVars

\* the tick in flight completes
TickCompletes ==
    /\ sim.loop = "tick"
    /\ sim' = [sim EXCEPT !.loop = "boundary", !.ticks = @ + 1]
    /\ simHist' = SimHist("main_loop")
    /\ UNCHANGED notSimVars

\* an exception escapes the tick in flight
TickFaults ==
    /\ sim.loop = "tick"
    /\ sim' = handle_error(sim)
    /\ simHist' = SimHist("handle_error")
    /\ UNCHANGED notSimVars

\* the paused loop is woken by resume() or stop()
LoopWakes ==
    /\ sim.loop = "waiting"
    /\ sim.stop_requested_ \/ ~sim.pause_requested_
    /\ sim' = [sim EXCEPT !.loop = "boundary"]
    /\ simHist' = SimHist("main_loop")
    /\ UNCHANGED notSimVars

\* the main loop thread has been joined: STOPPING -> STOPPED,
\* shutdown_components()
StopCompletes ==
    /\ sim.state_ = "STOPPING"
    /\ sim.loop = "exited"
    /\ sim' = [sim EXCEPT !.state_ = "STOPPED", !.components = "none"]
    /\ simHist' = SimHist("wait_for_completion")
    /\ UNCHANGED notSimVars

MainLoopStep == LoopBoundary \/ TickCompletes \/ LoopWakes \/ StopCompletes

SimNext ==
    \/ Initialize \/ InitializeSucceeds \/ InitializeFails
    \/ Start \/ Stop \/ Pause \/ Resume
    \/ LoopBoundary \/ TickCompletes \/ TickFaults \/ LoopWakes \/ StopCompletes

-----------------------------------------------------------------------------
(* Opportunity: the validation predicates *)

\* the values of net_profit_eth and slippage_percent, and of the slippage limit
OppDoubles == {D(-1), D(0), Fin(1, 2), D(1), DNaN}

\* struct Opportunity: the fields its methods read
Opportunities ==
    [net_profit_eth   : OppDoubles,
     slippage_percent : OppDoubles,
     gas_price_gwei   : 0..MaxGasPrice]

\* is_profitable() with a non-strict comparison
is_profitable_nonstrict(o) == DLe(D(0), o.net_profit_eth)

\* bool Opportunity::is_profitable() const
is_profitable(o) == DLt(D(0), o.net_profit_eth)

\* bool Opportunity::is_within_slippage_limit(double max_slippage) const
is_within_slippage_limit(o, max_slippage) == DLe(o.slippage_percent, max_slippage)

\* bool Opportunity::is_within_gas_limit(uint64_t max_gas_price) const
is_within_gas_limit(o, max_gas_price) == o.gas_price_gwei <= max_gas_price

NoOppCall == [fn |-> "none", arg |-> NoValue, result |-> FALSE]

OppIdle == opp \in Opportunities /\ oppCall = NoOppCall

OppFixed ==
    /\ opp = [net_profit_eth |-> D(0), slippage_percent |-> D(0), gas_price_gwei |-> 0]
    /\ oppCall = NoOppCall

\* a caller evaluates opp.is_profitable()
IsProfitable ==
    /\ oppCall' = [fn |-> "is_profitable", arg |-> NoValue,
                   result |-> is_profitable(opp)]
    /\ UNCHANGED <<opp, notOppVars>>

\* a caller evaluates opp.is_within_slippage_limit(m)
IsWithinSlippageLimit ==
    /\ \E m \in OppDoubles :
          oppCall' = [fn |-> "is_within_slippage_limit", arg |-> m,
                      result |-> is_within_slippage_limit(opp, m)]
    /\ UNCHANGED <<opp, notOppVars>>

\* a caller evaluates opp.is_within_gas_limit(g)
IsWithinGasLimit ==
    /\ \E g \in 0..MaxGasPrice :
          oppCall' = [fn |-> "is_within_gas_limit", arg |-> D(g),
                      result |-> is_within_gas_limit(opp, g)]
    /\ UNCHANGED <<opp, notOppVars>>

OppNext == IsProfitable \/ IsWithinSlippageLimit \/ IsWithinGasLimit

-----------------------------------------------------------------------------
(* Logger: the singleton, its mutex and the threads that call it *)

\* enum class LogLevel
LogLevelValue ==
    [TRACE |-> 0, DEBUG |-> 1, INFO |-> 2, WARN |-> 3, ERROR |-> 4, FATAL |-> 5]

LogLevels == {LogLevelValue[n] : n \in DOMAIN LogLevelValue}

\* struct LoggingConfig: the fields that decide what is written, and where
LoggingConfigs ==
    [level : LogLevels, console_output : BOOLEAN, file_output : BOOLEAN]

\* the threads of the process that call the Logger
LoggerThreads == {"main", "worker"}

\* the Logger singleton as constructed: initialized_ = false, a default
\* LoggingConfig, no file stream, the mutex free
LoggerInit ==
    [initialized_ |-> FALSE,
     config_      |-> [level |-> LogLevelValue.INFO, console_output |-> TRUE,
                       file_output |-> TRUE],
     file_open    |-> FALSE,
     mutex_       |-> "none"]

\* a thread outside every Logger call; op, level, passed and wrote describe
\* its last call: passed says that the call handed a message to log_internal,
\* wrote names the sinks log_internal wrote it to
ThreadIdle ==
    [pc |-> "idle", op |-> "none", level |-> 0, passed |-> FALSE, wrote |-> {}]

ThreadAt(pc, op, level, passed, wrote) ==
    [pc |-> pc, op |-> op, level |-> level, passed |-> passed, wrote |-> wrote]

\* log_internal(): the sinks a message is written to
log_internal(lg) ==
    {x \in {"console"} : lg.config_.console_output}
        \cup {x \in {"file"} : lg.config_.file_output /\ lg.file_open}

\* the test of log(): initialized_ && level >= config_.level
log_passes(lg, level) == lg.initialized_ /\ level >= lg.config_.level

LogIdle ==
    /\ logger = LoggerInit
    /\ logThreads = [t \in {"main"} |-> ThreadIdle]
    /\ logHist = [shutdownExited |-> FALSE, ignoredInitialize |-> "none"]

LogConcurrent ==
    /\ logger = LoggerInit
    /\ logThreads = [t \in LoggerThreads |-> ThreadIdle]
    /\ logHist = [shutdownExited |-> FALSE, ignoredInitialize |-> "none"]

\* initialize(config) that takes the new configuration although the logger
\* is initialized
initialize_reconfigures(lg, c) == [lg EXCEPT !.config_ = c]

\* initialize(config) when initialized_ is set: return, nothing is touched
initialize_already_initialized(lg, c) == lg

\* std::lock_guard<std::mutex> lock(instance.mutex_) at the head of op
LockGuard(t, op, level) ==
    /\ logThreads[t].pc = "idle"
    /\ logger.mutex_ = "none"
    /\ logger' = [logger EXCEPT !.mutex_ = t]
    /\ logThreads' = [logThreads EXCEPT ![t] = ThreadAt(op, op, level, FALSE, {})]
    /\ UNCHANGED <<logHist, notLogVars>>

\* initialize(config): the mutex is taken
InitializeLock == \E t \in DOMAIN logThreads : LockGuard(t, "initialize", 0)

\* initialize(config) under the mutex: nothing if already initialized; else
\* config_ = config, the file is opened (a failure throws), initialized_ = true
\* and "Logger initialized" is passed to log_internal
InitializeBody ==
    \E t \in DOMAIN logThreads, c \in LoggingConfigs, opened \in BOOLEAN :
        /\ logThreads[t].pc = "initialize"
        /\ opened \/ c.file_output
        /\ IF logger.initialized_
           THEN /\ logger' = [initialize_already_initialized(logger, c)
                                 EXCEPT !.mutex_ = "none"]
                /\ logThreads' = [logThreads EXCEPT ![t].pc = "idle"]
                /\ logHist' = [logHist EXCEPT !.ignoredInitialize =
                                  IF c = logger.config_ THEN "same" ELSE "different"]
           ELSE IF c.file_output /\ ~opened
           THEN /\ logger' = [logger EXCEPT !.config_ = c, !.mutex_ = "none"]
                /\ logThreads' = [logThreads EXCEPT ![t].pc = "idle"]
                /\ UNCHANGED logHist
           ELSE /\ logger' = [logger EXCEPT !.config_ = c, !.initialized_ = TRUE,
                                            !.file_open = c.file_output]
                /\ logThreads' = [logThreads EXCEPT ![t] =
                      ThreadAt("initialize_log_internal", "initialize", 0, TRUE,
                               log_internal(logger'))]
                /\ logHist' = [logHist EXCEPT !.shutdownExited = FALSE]
        /\ UNCHANGED notLogVars

\* initialize(config): log_internal returns and the mutex is released
InitializeReturns ==
    \E t \in DOMAIN logThreads :
        /\ logThreads[t].pc = "initialize_log_internal"
        /\ logger' = [logger EXCEPT !.mutex_ = "none"]
        /\ logThreads' = [logThreads EXCEPT ![t].pc = "idle"]
        /\ UNCHANGED <<logHist, notLogVars>>

\* set_level(level): the mutex is taken
SetLevelLock ==
    \E t \in DOMAIN logThreads, l \in LogLevels : LockGuard(t, "set_level", l)

\* set_level(level) under the mutex: config_.level = level
SetLevelBody ==
    \E t \in DOMAIN logThreads :
        /\ logThreads[t].pc = "set_level"
        /\ logger' = [logger EXCEPT !.config_.level = logThreads[t].level,
                                    !.mutex_ = "none"]
        /\ logThreads' = [logThreads EXCEPT ![t].pc = "idle"]
        /\ UNCHANGED <<logHist, notLogVars>>

\* log(level, message) is entered; it takes no lock
Log ==
    \E t \in DOMAIN logThreads, l \in LogLevels :
        /\ logThreads[t].pc = "idle"
        /\ logThreads' = [logThreads EXCEPT ![t] = ThreadAt("log_check", "log", l, FALSE, {})]
        /\ UNCHANGED <<logger, logHist, notLogVars>>

\* log(level, message) reads initialized_ and config_.level and calls
\* log_internal or returns
LogCheck ==
    \E t \in DOMAIN logThreads :
        /\ logThreads[t].pc = "log_check"
        /\ logThreads' = [logThreads EXCEPT ![t] =
              IF log_passes(logger, logThreads[t].level)
              THEN ThreadAt("log_internal", "log", logThreads[t].level, TRUE,
                            log_internal(logger))
              ELSE ThreadAt("idle", "log", logThreads[t].level, FALSE, {})]
        /\ UNCHANGED <<logger, logHist, notLogVars>>

\* log(level, message): log_internal returns
LogReturns ==
    \E t \in DOMAIN logThreads :
        /\ logThreads[t].pc = "log_internal"
        /\ logThreads' = [logThreads EXCEPT ![t].pc = "idle"]
        /\ UNCHANGED <<logger, logHist, notLogVars>>

\* shutdown(): the mutex is taken
ShutdownLock == \E t \in DOMAIN logThreads : LockGuard(t, "shutdown", 0)

\* shutdown() under the mutex: nothing if not initialized, else
\* "Logger shutting down" is passed to log_internal
ShutdownBody ==
    \E t \in DOMAIN logThreads :
        /\ logThreads[t].pc = "shutdown"
        /\ IF logger.initialized_
           THEN /\ logThreads' = [logThreads EXCEPT ![t] =
                      ThreadAt("shutdown_log_internal", "shutdown", 0, TRUE,
                               log_internal(logger))]
                /\ UNCHANGED <<logger, logHist>>
           ELSE /\ logger' = [logger EXCEPT !.mutex_ = "none"]
                /\ logThreads' = [logThreads EXCEPT ![t].pc = "idle"]
                /\ logHist' = [logHist EXCEPT !.shutdownExited = TRUE]
        /\ UNCHANGED notLogVars

\* shutdown(): log_internal returns and instance.flush() is called, still
\* under the mutex of shutdown()
ShutdownCallsFlush ==
    \E t \in DOMAIN logThreads :
        /\ logThreads[t].pc = "shutdown_log_internal"
        /\ logThreads' = [logThreads EXCEPT ![t].pc = "flush"]
        /\ UNCHANGED <<logger, logHist, notLogVars>>

\* a caller invokes flush()
Flush ==
    \E t \in DOMAIN logThreads :
        /\ logThreads[t].pc = "idle"
        /\ logThreads' = [logThreads EXCEPT ![t] = ThreadAt("flush", "flush", 0, FALSE, {})]
        /\ UNCHANGED <<logger, logHist, notLogVars>>

\* flush(): std::lock_guard<std::mutex> lock(instance.mutex_), the mutex free
FlushLock ==
    \E t \in DOMAIN logThreads :
        /\ logThreads[t].pc = "flush"
        /\ logger.mutex_ = "none"
        /\ logger' = [logger EXCEPT !.mutex_ = t]
        /\ logThreads' = [logThreads EXCEPT ![t].pc = "flush_locked"]
        /\ UNCHANGED <<logHist, notLogVars>>

\* flush(): the stream is flushed and the mutex released
FlushBody ==
    \E t \in DOMAIN logThreads :
        /\ logThreads[t].pc = "flush_locked"
        /\ logger' = [logger EXCEPT !.mutex_ = "none"]
        /\ logThreads' = [logThreads EXCEPT ![t].pc = "idle"]
        /\ UNCHANGED <<logHist, notLogVars>>

\* flush() locks the std::mutex its own thread holds (undefined behaviour);
\* one outcome: the thread blocks on itself for ever
FlushRelockBlocks ==
    \E t \in DOMAIN logThreads :
        /\ logThreads[t].pc = "flush"
        /\ logger.mutex_ = t
        /\ logThreads' = [logThreads EXCEPT ![t].pc = "deadlocked"]
        /\ UNCHANGED <<logger, logHist, notLogVars>>

\* the other outcome: lock() throws std::system_error, which leaves flush()
\* and shutdown(); the lock_guard of shutdown() releases the mutex
FlushRelockThrows ==
    \E t \in DOMAIN logThreads :
        /\ logThreads[t].pc = "flush"
        /\ logger.mutex_ = t
        /\ logger' = [logger EXCEPT !.mutex_ = "none"]
        /\ logThreads' = [logThreads EXCEPT ![t].pc = "idle"]
        /\ logHist' = [logHist EXCEPT !.shutdownExited = TRUE]
        /\ UNCHANGED notLogVars

LogNext ==
    \/ InitializeLock \/ InitializeBody \/ InitializeReturns
    \/ SetLevelLock \/ SetLevelBody
    \/ Log \/ LogCheck \/ LogReturns
    \/ ShutdownLock \/ ShutdownBody \/ ShutdownCallsFlush
    \/ Flush \/ FlushLock \/ FlushBody \/ FlushRelockBlocks \/ FlushRelockThrows

-----------------------------------------------------------------------------
(* ConfigManager: the configuration, its JSON form and its validation.     *)
(* A JSON object is a function from its keys; a JSON number that is an     *)
(* integer, and an unsigned field of the configuration, is the record      *)
(* [top, v]: the integer v when top = 0, and 2^top + v (v < 0) otherwise.  *)

N(v) == [top |-> 0, v |-> v]

\* 2^16, the number of values of a uint16_t
TwoTo16 == 65536

\* the conversion of a JSON integer to an unsigned type of the given width
\* (static_cast: the value modulo 2^bits)
ToUnsigned(bits, x) ==
    IF bits = 16 THEN N(x.v % TwoTo16)
    ELSE IF x.top = 0 /\ x.v < 0 THEN [top |-> bits, v |-> x.v]
    ELSE IF x.top > bits THEN [top |-> bits, v |-> x.v]
    ELSE x

\* struct StrategyConfig: the default member initialisers
StrategyConfigDefault ==
    [enabled                   |-> FALSE,
     min_profit_eth            |-> Fin(1, 100),
     max_slippage_percent      |-> Fin(1, 2),
     target_dexes              |-> <<>>,
     gas_limit                 |-> N(500000),
     max_gas_price_gwei        |-> N(100),
     bundle_timeout_ms         |-> N(1000),
     frontrun_gas_multiplier   |-> Fin(11, 10),
     backrun_gas_multiplier    |-> Fin(21, 20),
     priority_fee_gwei         |-> D(2),
     min_transaction_value_eth |-> Fin(1, 10),
     target_protocols          |-> <<>>]

\* struct Config: the default member initialisers; of the trading, data and
\* security sections one field each is followed
ConfigDefault ==
    [simulation  |-> [mode |-> "REALTIME",
                      synthetic_data |-> [enabled |-> FALSE,
                                          transaction_rate |-> N(1000),
                                          duration_seconds |-> N(3600)]],
     performance |-> [thread_pool_size |-> N(16), queue_size |-> N(10000)],
     strategies  |-> <<>>,
     blockchain  |-> [ethereum |-> [rpc_url |-> ""],
                      fork |-> [enabled |-> FALSE, url |-> "",
                                block_number |-> N(0)]],
     trading     |-> [slippage |-> [max_percent |-> D(2)]],
     monitoring  |-> [metrics |-> [enabled |-> TRUE, port |-> N(8080)]],
     data        |-> [cache |-> [enabled |-> TRUE]],
     security    |-> [rate_limiting |-> [enabled |-> TRUE]]]

\* x == 0 on an unsigned field
IsZero(x) == x.top = 0 /\ x.v = 0

\* void ConfigManager::validate() const: TRUE when it returns, FALSE when it
\* throws
validate(c) ==
    /\ ~(c.simulation.synthetic_data.enabled
            /\ IsZero(c.simulation.synthetic_data.transaction_rate))
    /\ ~IsZero(c.performance.thread_pool_size)
    /\ ~IsZero(c.performance.queue_size)
    /\ c.blockchain.ethereum.rpc_url # ""
    /\ \A name \in DOMAIN c.strategies :
          c.strategies[name].enabled =>
              /\ ~DLt(c.strategies[name].min_profit_eth, D(0))
              /\ ~DLt(c.strategies[name].max_slippage_percent, D(0))
              /\ ~DLt(D(100), c.strategies[name].max_slippage_percent)
              /\ ~IsZero(c.strategies[name].gas_limit)
    /\ ~(c.monitoring.metrics.enabled /\ IsZero(c.monitoring.metrics.port))

\* j.contains(k) ? j[k] : the value the field has
Get(j, k, current) == IF k \in DOMAIN j THEN j[k] ELSE current

\* the strings of SimulationMode in the JSON form
ModeName == [REALTIME |-> "realtime", HISTORICAL |-> "historical",
             SYNTHETIC |-> "synthetic"]

\* strategies_to_json() that leaves gas_limit out
strategies_to_json_without_gas_limit(c) ==
    [name \in DOMAIN c.strategies |->
        [f \in DOMAIN StrategyConfigDefault \ {"gas_limit"} |-> c.strategies[name][f]]]

\* nlohmann::json ConfigManager::strategies_to_json() const: null (no key)
\* when there is no strategy
strategies_to_json(c) ==
    [name \in DOMAIN c.strategies |->
        [enabled                   |-> c.strategies[name].enabled,
         min_profit_eth            |-> c.strategies[name].min_profit_eth,
         max_slippage_percent      |-> c.strategies[name].max_slippage_percent,
         target_dexes              |-> c.strategies[name].target_dexes,
         gas_limit                 |-> c.strategies[name].gas_limit,
         max_gas_price_gwei        |-> c.strategies[name].max_gas_price_gwei,
         bundle_timeout_ms         |-> c.strategies[name].bundle_timeout_ms,
         frontrun_gas_multiplier   |-> c.strategies[name].frontrun_gas_multiplier,
         backrun_gas_multiplier    |-> c.strategies[name].backrun_gas_multiplier,
         priority_fee_gwei         |-> c.strategies[name].priority_fee_gwei,
         min_transaction_value_eth |-> c.strategies[name].min_transaction_value_eth,
         target_protocols          |-> c.strategies[name].target_protocols]]

\* nlohmann::json ConfigManager::to_json() const, with the *_to_json() of the
\* other sections
to_json(c) ==
    [simulation  |-> [mode |-> ModeName[c.simulation.mode],
                      synthetic_data |-> c.simulation.synthetic_data],
     performance |-> c.performance,
     strategies  |-> strategies_to_json(c),
     blockchain  |-> c.blockchain,
     trading     |-> c.trading,
     monitoring  |-> c.monitoring,
     data        |-> c.data,
     security    |-> c.security]

\* one StrategyConfig of parse_strategies_config: a default StrategyConfig
\* with the fields the JSON has
parse_strategy(sj) ==
    [f \in DOMAIN StrategyConfigDefault |->
        IF f \notin DOMAIN sj THEN StrategyConfigDefault[f]
        ELSE IF f \in {"gas_limit", "max_gas_price_gwei", "bundle_timeout_ms"}
        THEN ToUnsigned(64, sj[f])
        ELSE sj[f]]

\* void ConfigManager::parse_strategies_config(const nlohmann::json& j)
parse_strategies_config(c, j) ==
    [c EXCEPT !.strategies =
        [name \in DOMAIN c.strategies \cup DOMAIN j |->
            IF name \in DOMAIN j THEN parse_strategy(j[name])
            ELSE c.strategies[name]]]

\* parse_simulation_config: an unknown mode string changes nothing
parse_simulation_config(c, j) ==
    LET sd == Get(j, "synthetic_data", <<>>)
        known == {m \in DOMAIN ModeName : ModeName[m] = Get(j, "mode", "")}
    IN  [c EXCEPT
            !.simulation.mode = IF known = {} THEN @ ELSE CHOOSE m \in known : TRUE,
            !.simulation.synthetic_data.enabled = Get(sd, "enabled", @),
            !.simulation.synthetic_data.transaction_rate =
                IF "transaction_rate" \in DOMAIN sd
                THEN ToUnsigned(64, sd.transaction_rate) ELSE @,
            !.simulation.synthetic_data.duration_seconds =
                IF "duration_seconds" \in DOMAIN sd
                THEN ToUnsigned(64, sd.duration_seconds) ELSE @]

\* parse_performance_config
parse_performance_config(c, j) ==
    [c EXCEPT
        !.performance.thread_pool_size =
            IF "thread_pool_size" \in DOMAIN j
            THEN ToUnsigned(32, j.thread_pool_size) ELSE @,
        !.performance.queue_size =
            IF "queue_size" \in DOMAIN j THEN ToUnsigned(32, j.queue_size) ELSE @]

\* parse_blockchain_config, parse_trading_config, parse_monitoring_config,
\* parse_data_config and parse_security_config
parse_other_config(c, j) ==
    LET eth     == Get(Get(j, "blockchain", <<>>), "ethereum", <<>>)
        fork    == Get(Get(j, "blockchain", <<>>), "fork", <<>>)
        slip    == Get(Get(j, "trading", <<>>), "slippage", <<>>)
        metrics == Get(Get(j, "monitoring", <<>>), "metrics", <<>>)
        cache   == Get(Get(j, "data", <<>>), "cache", <<>>)
        rl      == Get(Get(j, "security", <<>>), "rate_limiting", <<>>)
    IN  [c EXCEPT
            !.blockchain.ethereum.rpc_url = Get(eth, "rpc_url", @),
            !.blockchain.fork.enabled = Get(fork, "enabled", @),
            !.blockchain.fork.url = Get(fork, "url", @),
            !.blockchain.fork.block_number =
                IF "block_number" \in DOMAIN fork
                THEN ToUnsigned(64, fork.block_number) ELSE @,
            !.trading.slippage.max_percent = Get(slip, "max_percent", @),
            !.monitoring.metrics.enabled = Get(metrics, "enabled", @),
            !.monitoring.metrics.port =
                IF "port" \in DOMAIN metrics THEN ToUnsigned(16, metrics.port) ELSE @,
            !.data.cache.enabled = Get(cache, "enabled", @),
            !.security.rate_limiting.enabled = Get(rl, "enabled", @)]

\* void ConfigManager::from_json(const nlohmann::json& j)
from_json(c, j) ==
    LET c1 == IF "simulation" \in DOMAIN j
              THEN parse_simulation_config(c, j.simulation) ELSE c
        c2 == IF "performance" \in DOMAIN j
              THEN parse_performance_config(c1, j.performance) ELSE c1
        c3 == IF "strategies" \in DOMAIN j
              THEN parse_strategies_config(c2, j.strategies) ELSE c2
    IN  parse_other_config(c3, j)

\* a file that cannot be opened
NoFile == [absent |-> TRUE]

\* void ConfigManager::load_config(const std::string& file_path): the
\* configuration it leaves, and whether it throws
load_config(c, file) ==
    IF "absent" \in DOMAIN file THEN [config |-> c, threw |-> TRUE]
    ELSE [config |-> from_json(c, file), threw |-> ~validate(from_json(c, file))]

\* the JSON of one strategy with the fields validate() reads
StrategyDoc(enabled, min_profit, max_slippage, gas_limit) ==
    [enabled |-> enabled, min_profit_eth |-> min_profit,
     max_slippage_percent |-> max_slippage, gas_limit |-> N(gas_limit)]

\* a complete and valid configuration file
BaseDoc ==
    [simulation  |-> [mode |-> "synthetic",
                      synthetic_data |-> [enabled |-> TRUE,
                                          transaction_rate |-> N(1000)]],
     performance |-> [thread_pool_size |-> N(16), queue_size |-> N(10000)],
     strategies  |-> [arbitrage |-> StrategyDoc(TRUE, Fin(1, 100), Fin(1, 2), 21000)],
     blockchain  |-> [ethereum |-> [rpc_url |-> "http://localhost:8545"]],
     trading     |-> [slippage |-> [max_percent |-> D(3)]],
     monitoring  |-> [metrics |-> [enabled |-> TRUE, port |-> N(8080)]],
     data        |-> [cache |-> [enabled |-> FALSE]],
     security    |-> [rate_limiting |-> [enabled |-> FALSE]]]

\* the values a file may give to one section
SectionDocs ==
    [simulation  |->
        {[mode |-> sd[1], synthetic_data |-> [enabled |-> sd[2],
                                           transaction_rate |-> N(sd[3])]] :
            sd \in {<<"historical", TRUE, 0>>, <<"realtime", FALSE, 0>>}},
     performance |->
        {[thread_pool_size |-> N(p[1]), queue_size |-> N(p[2])] :
            p \in {<<-1, 10000>>, <<0, 10000>>, <<16, 0>>}},
     strategies  |->
        {[arbitrage |-> sj] :
            sj \in {StrategyDoc(TRUE, D(-1), Fin(1, 2), 21000),
                    StrategyDoc(TRUE, D(0), D(101), 21000),
                    StrategyDoc(TRUE, D(0), D(100), 0),
                    StrategyDoc(FALSE, D(-1), D(101), 0),
                    [enabled |-> TRUE, target_dexes |-> <<"uniswap_v2">>,
                     max_gas_price_gwei |-> N(50), bundle_timeout_ms |-> N(500),
                     frontrun_gas_multiplier |-> Fin(3, 2),
                     backrun_gas_multiplier |-> Fin(5, 4),
                     priority_fee_gwei |-> D(1),
                     min_transaction_value_eth |-> D(1),
                     target_protocols |-> <<"aave">>]}}
        \cup {[sandwich |-> StrategyDoc(TRUE, D(1), D(1), 300000)], <<>>},
     blockchain  |-> {[ethereum |-> [rpc_url |-> ""]], [ethereum |-> <<>>]},
     monitoring  |->
        {[metrics |-> [enabled |-> m[1], port |-> N(m[2])]] :
            m \in {<<TRUE, -1>>, <<TRUE, TwoTo16>>, <<FALSE, 0>>}}]

\* the configuration files followed: the complete file, the files with one
\* section only, and the empty object
JsonDocs ==
    {BaseDoc, <<>>}
        \cup UNION {{[k \in {sec} |-> v] : v \in SectionDocs[sec]} :
                       sec \in DOMAIN SectionDocs}

\* a file with nothing but the RPC URL, which the defaults make valid
MinimalDoc == [blockchain |-> [ethereum |-> [rpc_url |-> "http://localhost:8545"]]]

NoCfgCall == [op |-> "none"]

\* no ConfigManager: last_load will name the last load_config() or
\* load_default_config() a caller made on it, "failed" if that call threw
NoConfigManager == [constructed |-> FALSE, last_load |-> "none", config |-> ConfigDefault]

\* no ConfigManager exists yet; config/default_config.json is complete and
\* valid, or minimal and valid, or an empty object, or missing
CfgIdle ==
    /\ cfg = NoConfigManager
    /\ cfgFile \in {BaseDoc, MinimalDoc, <<>>, NoFile}
    /\ cfgCall = NoCfgCall

CfgFixed == cfg = NoConfigManager /\ cfgFile = NoFile /\ cfgCall = NoCfgCall

\* ConfigManager::ConfigManager(): load_default_config(); an exception leaves
\* no object
Construct ==
    /\ cfgCall = NoCfgCall
    /\ LET r == load_config(ConfigDefault, cfgFile)
       IN  /\ cfg' = [constructed |-> ~r.threw, last_load |-> "none",
                      config |-> IF r.threw THEN ConfigDefault ELSE r.config]
           /\ cfgCall' = [op |-> "ConfigManager", doc |-> cfgFile, threw |-> r.threw]
    /\ UNCHANGED <<cfgFile, notCfgVars>>

\* a caller invokes load_default_config()
LoadDefaultConfig ==
    /\ cfg.constructed
    /\ LET r == load_config(cfg.config, cfgFile)
       IN  /\ cfg' = [cfg EXCEPT !.config = r.config,
                               !.last_load = IF r.threw THEN "failed"
                                             ELSE "load_default_config"]
           /\ cfgCall' = [op |-> "load_default_config", doc |-> cfgFile,
                          threw |-> r.threw]
    /\ UNCHANGED <<cfgFile, notCfgVars>>

\* a caller invokes load_config(file_path)
LoadConfig ==
    /\ cfg.constructed
    /\ \E file \in JsonDocs \cup {NoFile} :
          LET r == load_config(cfg.config, file)
          IN  /\ cfg' = [cfg EXCEPT !.config = r.config,
                                  !.last_load = IF r.threw THEN "failed"
                                                ELSE "load_config"]
              /\ cfgCall' = [op |-> "load_config", doc |-> file, threw |-> r.threw,
                             changed |-> r.config # cfg.config]
    /\ UNCHANGED <<cfgFile, notCfgVars>>

\* a caller invokes validate()
Validate ==
    /\ cfg.constructed
    /\ cfgCall' = [op |-> "validate", threw |-> ~validate(cfg.config)]
    /\ UNCHANGED <<cfg, cfgFile, notCfgVars>>

\* a caller invokes from_json(to_json())
FromJsonOfToJson ==
    /\ cfg.constructed
    /\ cfg' = [cfg EXCEPT !.config = from_json(cfg.config, to_json(cfg.config))]
    /\ cfgCall' = [op |-> "from_json", doc |-> to_json(cfg.config),
                   before |-> cfg.config]
    /\ UNCHANGED <<cfgFile, notCfgVars>>

CfgNext ==
    Construct \/ LoadDefaultConfig \/ LoadConfig \/ Validate \/ FromJsonOfToJson

-----------------------------------------------------------------------------
(* Command line overrides: parse_arguments and ConfigManager::override_config *)

\* struct SimulationConfig: the default member initialisers
SimulationConfigDefault ==
    [mode |-> "REALTIME", enabled_strategies |-> <<>>, duration_seconds |-> N(0),
     tx_rate |-> N(0), fork_url |-> "", fork_block |-> N(0)]

\* the --strategies value as its comma-separated pieces: every piece before a
\* comma is kept, empty or not, and the piece after the last comma only when
\* it is not empty
split_strategies(pieces) ==
    IF pieces = <<>> THEN <<>>
    ELSE IF pieces[Len(pieces)] = "" THEN SubSeq(pieces, 1, Len(pieces) - 1)
    ELSE pieces

\* SimulationConfig parse_arguments(int argc, char* argv[]): an option that
\* is not given is "none" (no --strategies: no piece)
parse_arguments(args) ==
    [mode               |-> IF args.mode = "none" THEN SimulationConfigDefault.mode
                            ELSE CHOOSE m \in DOMAIN ModeName : ModeName[m] = args.mode,
     enabled_strategies |-> split_strategies(args.strategies),
     duration_seconds   |-> args.duration,
     tx_rate            |-> args.tx_rate,
     fork_url           |-> args.fork_url,
     fork_block         |-> args.fork_block]

\* the elements of a sequence
Range(q) == {q[i] : i \in DOMAIN q}

\* the strategies after the two loops of override_config, and after the
\* second loop alone
EnableOnly(strategies, names) ==
    [name \in DOMAIN strategies \cup names |->
        IF name \in names
        THEN [(IF name \in DOMAIN strategies THEN strategies[name]
               ELSE StrategyConfigDefault) EXCEPT !.enabled = TRUE]
        ELSE [strategies[name] EXCEPT !.enabled = FALSE]]

EnableAlso(strategies, names) ==
    [name \in DOMAIN strategies \cup names |->
        IF name \in names
        THEN [(IF name \in DOMAIN strategies THEN strategies[name]
               ELSE StrategyConfigDefault) EXCEPT !.enabled = TRUE]
        ELSE strategies[name]]

\* override_config() without the loop that disables all strategies first
override_config_keeps_enabled(c, cli) ==
    [c EXCEPT
        !.simulation.mode = IF cli.mode # "REALTIME" THEN cli.mode ELSE @,
        !.strategies = IF cli.enabled_strategies # <<>>
                       THEN EnableAlso(@, Range(cli.enabled_strategies)) ELSE @,
        !.blockchain.fork = IF cli.fork_url # ""
                            THEN [enabled |-> TRUE, url |-> cli.fork_url,
                                  block_number |-> cli.fork_block]
                            ELSE @,
        !.simulation.synthetic_data.duration_seconds =
            IF ~IsZero(cli.duration_seconds) THEN cli.duration_seconds ELSE @,
        !.simulation.synthetic_data.transaction_rate =
            IF ~IsZero(cli.tx_rate) THEN cli.tx_rate ELSE @]

\* void ConfigManager::override_config(const SimulationConfig& cli_config)
override_config(c, cli) ==
    [c EXCEPT
        !.simulation.mode = IF cli.mode # "REALTIME" THEN cli.mode ELSE @,
        !.strategies = IF cli.enabled_strategies # <<>>
                       THEN EnableOnly(@, Range(cli.enabled_strategies)) ELSE @,
        !.blockchain.fork = IF cli.fork_url # ""
                            THEN [enabled |-> TRUE, url |-> cli.fork_url,
                                  block_number |-> cli.fork_block]
                            ELSE @,
        !.simulation.synthetic_data.duration_seconds =
            IF ~IsZero(cli.duration_seconds) THEN cli.duration_seconds ELSE @,
        !.simulation.synthetic_data.transaction_rate =
            IF ~IsZero(cli.tx_rate) THEN cli.tx_rate ELSE @]

\* the keys of std::map<std::string, StrategyConfig> in its iteration order
StrategyNames == <<"", "arbitrage", "frontrun", "sandwich">>

\* std::vector<std::string> ConfigManager::get_enabled_strategies() const
get_enabled_strategies(c) ==
    SelectSeq(StrategyNames,
              LAMBDA name : name \in DOMAIN c.strategies /\ c.strategies[name].enabled)

\* the command lines followed
Arguments ==
    [mode       : {"none", "realtime", "historical", "synthetic"},
     strategies : {<<>>, <<"arbitrage">>, <<"sandwich", "frontrun">>,
                   <<"frontrun", "frontrun">>, <<"", "arbitrage">>,
                   <<"arbitrage", "">>},
     duration   : {N(0), N(60)},
     tx_rate    : {N(0), N(5)},
     fork_url   : {"", "http://localhost:8546"},
     fork_block : {N(15000000)}]

\* the default configuration files followed: each mode, with an enabled
\* arbitrage and sandwich strategy and a disabled frontrun strategy, with one
\* disabled strategy, or with no strategy
OverrideFiles ==
    {[BaseDoc EXCEPT !.simulation.mode = ModeName[m], !.strategies = st] :
        m \in DOMAIN ModeName,
        st \in {[arbitrage |-> StrategyDoc(TRUE, Fin(1, 100), Fin(1, 2), 21000),
                 sandwich  |-> StrategyDoc(TRUE, D(1), D(1), 300000),
                 frontrun  |-> StrategyDoc(FALSE, D(0), D(1), 100000)],
                [arbitrage |-> StrategyDoc(FALSE, D(0), D(1), 21000)],
                <<>>}}

OverrideIdle ==
    /\ cfg = NoConfigManager
    /\ cfgFile \in OverrideFiles
    /\ cfgCall = NoCfgCall

\* main applies the command line to the configuration it has constructed
OverrideConfig ==
    /\ cfg.constructed
    /\ cfgCall.op = "ConfigManager"
    /\ \E args \in Arguments :
          /\ cfg' = [cfg EXCEPT !.config = override_config(@, parse_arguments(args))]
          /\ cfgCall' = [op |-> "override_config", args |-> args,
                         cli |-> parse_arguments(args), before |-> cfg.config]
    /\ UNCHANGED <<cfgFile, notCfgVars>>

\* a caller invokes get_enabled_strategies() after the override
GetEnabledStrategies ==
    /\ cfg.constructed
    /\ cfgCall.op = "override_config"
    /\ cfgCall' = [op |-> "get_enabled_strategies",
                   enabled |-> get_enabled_strategies(cfg.config),
                   cli |-> cfgCall.cli, before |-> cfgCall.before]
    /\ UNCHANGED <<cfg, cfgFile, notCfgVars>>

OverrideNext == Construct \/ OverrideConfig \/ GetEnabledStrategies

-----------------------------------------------------------------------------
(* main() and signal_handler: the calls made on the Simulator.  The calls   *)
(* of the Simulator return; what they do is followed in the Simulator       *)
(* section.                                                                 *)

\* iterations of the event loop followed, and signals delivered
MaxIterations == 2
MaxSignals == 2

\* main() is entered with the handlers of SIGINT and SIGTERM installed
MainStart ==
    [pc |-> "parse_arguments", g_shutdown_requested |-> FALSE, g_simulator |-> FALSE,
     export_formats |-> <<>>, calls |-> <<>>, signals |-> 0, iterations |-> 0,
     exit |-> "none"]

MainIdle == mainProc = MainStart

\* a call made on *g_simulator, by main or by signal_handler
SimulatorCall(by, call) == [by |-> by, call |-> call]

\* the catch blocks of main: return 1
MainReturns1 == [mainProc EXCEPT !.pc = "returned", !.exit = "1"]

\* parse_arguments(argc, argv): --export-csv given or not, or an argument
\* that makes it throw
ParseArguments ==
    /\ mainProc.pc = "parse_arguments"
    /\ \E outcome \in {"export", "plain", "throws"} :
          mainProc' =
              IF outcome = "throws" THEN MainReturns1
              ELSE [mainProc EXCEPT
                       !.pc = "configure",
                       !.export_formats = IF outcome = "export" THEN <<"csv">> ELSE <<>>]
    /\ UNCHANGED notMainVars

\* ConfigManager config_manager; load_config or load_default_config;
\* override_config; Logger::initialize; Metrics::initialize: a configuration
\* file that is missing or invalid makes the load throw
Configure ==
    /\ mainProc.pc = "configure"
    /\ \E loaded \in BOOLEAN :
          mainProc' = IF loaded THEN [mainProc EXCEPT !.pc = "create_simulator"]
                      ELSE MainReturns1
    /\ UNCHANGED notMainVars

\* g_simulator = std::make_unique<Simulator>(config_manager)
CreateSimulator ==
    /\ mainProc.pc = "create_simulator"
    /\ mainProc' = [mainProc EXCEPT !.pc = "initialize", !.g_simulator = TRUE]
    /\ UNCHANGED notMainVars

\* g_simulator->initialize()
CallInitialize ==
    /\ mainProc.pc = "initialize"
    /\ mainProc' = [mainProc EXCEPT
                       !.pc = "start",
                       !.calls = Append(@, SimulatorCall("main", "initialize"))]
    /\ UNCHANGED notMainVars

\* g_simulator->start()
CallStart ==
    /\ mainProc.pc = "start"
    /\ mainProc' = [mainProc EXCEPT
                       !.pc = "event_loop",
                       !.calls = Append(@, SimulatorCall("main", "start"))]
    /\ UNCHANGED notMainVars

\* one iteration of the event loop: the flag is clear, and after the sleep
\* is_running() is true
EventLoopSleeps ==
    /\ mainProc.pc = "event_loop"
    /\ ~mainProc.g_shutdown_requested
    /\ mainProc.iterations < MaxIterations
    /\ mainProc' = [mainProc EXCEPT !.iterations = @ + 1]
    /\ UNCHANGED notMainVars

\* the flag is clear, and after the sleep is_running() is false: break
EventLoopBreaks ==
    /\ mainProc.pc = "event_loop"
    /\ ~mainProc.g_shutdown_requested
    /\ mainProc' = [mainProc EXCEPT !.pc = "stop"]
    /\ UNCHANGED notMainVars

\* while (!g_shutdown_requested.load()) finds the flag set
EventLoopSeesFlag ==
    /\ mainProc.pc = "event_loop"
    /\ mainProc.g_shutdown_requested
    /\ mainProc' = [mainProc EXCEPT !.pc = "stop"]
    /\ UNCHANGED notMainVars

\* g_simulator->stop()
CallStop ==
    /\ mainProc.pc = "stop"
    /\ mainProc' = [mainProc EXCEPT
                       !.pc = "wait_for_completion",
                       !.calls = Append(@, SimulatorCall("main", "stop"))]
    /\ UNCHANGED notMainVars

\* g_simulator->wait_for_completion()
CallWaitForCompletion ==
    /\ mainProc.pc = "wait_for_completion"
    /\ mainProc' = [mainProc EXCEPT
                       !.pc = "export_results",
                       !.calls = Append(@, SimulatorCall("main", "wait_for_completion"))]
    /\ UNCHANGED notMainVars

\* export_results() if formats were requested, and return 0
ExportAndReturn ==
    /\ mainProc.pc = "export_results"
    /\ mainProc' = [mainProc EXCEPT
                       !.pc = "returned", !.exit = "0",
                       !.calls = IF mainProc.export_formats # <<>>
                                 THEN Append(@, SimulatorCall("main", "export_results"))
                                 ELSE @]
    /\ UNCHANGED notMainVars

MainLive == mainProc.pc \notin {"returned", "blocked"}

\* where main is inside Logger::info (a write to std::cout under the Logger's
\* lock) or inside a call on the Simulator
MainInUnsafeCall ==
    mainProc.pc \in {"configure", "create_simulator", "initialize", "start", "stop",
                     "wait_for_completion", "export_results"}

\* signal_handler runs to its end: it sets the flag and, when g_simulator is
\* set, calls stop()
SignalHandler ==
    /\ MainLive
    /\ mainProc.signals < MaxSignals
    /\ mainProc' = [mainProc EXCEPT
                       !.signals = @ + 1,
                       !.g_shutdown_requested = TRUE,
                       !.calls = IF mainProc.g_simulator
                                 THEN Append(@, SimulatorCall("signal_handler", "stop"))
                                 ELSE @]
    /\ UNCHANGED notMainVars

\* signal_handler writes to std::cout and calls stop(), neither of which is
\* async-signal-safe: the behaviour is undefined, and when the signal found
\* the thread inside such a call the handler does not return (the thread
\* waits for a lock it holds itself), before or after it has set the flag
SignalHandlerBlocks ==
    /\ MainInUnsafeCall
    /\ mainProc.signals < MaxSignals
    /\ \E stored \in BOOLEAN :
          mainProc' = [mainProc EXCEPT
                          !.signals = @ + 1,
                          !.pc = "blocked",
                          !.g_shutdown_requested = @ \/ stored]
    /\ UNCHANGED notMainVars

MainStep ==
    \/ ParseArguments \/ Configure \/ CreateSimulator \/ CallInitialize \/ CallStart
    \/ EventLoopSleeps \/ EventLoopBreaks \/ EventLoopSeesFlag
    \/ CallStop \/ CallWaitForCompletion \/ ExportAndReturn

MainNext == MainStep \/ SignalHandler \/ SignalHandlerBlocks

-----------------------------------------------------------------------------
(* Log rotation: Logger::write_to_file and Logger::rotate_log_file.  Sizes  *)
(* are in bytes.  The files on disk are a function from 0 (the log file)    *)
(* and i (the backup .i) to the identity of the file held under that name.  *)

\* write_to_file() calls followed
MaxWrites == 4

\* 1024 * 1024, and 2^32 / (1024 * 1024)
MiB == 1048576
TwoTo12 == 4096

\* uint64_t max_size_bytes = config_.max_file_size_mb * 1024 * 1024: the
\* product is formed in 32-bit unsigned arithmetic, so it is
\* (mb * 2^20) mod 2^32 = (mb mod 2^12) * 2^20
max_size_bytes(mb) == (mb % TwoTo12) * MiB

\* the values of max_files and max_file_size_mb followed, the sizes the log
\* file may have when the Logger opens it, and the lengths of a message
MaxFilesValues == {1, 2, 3}
MaxFileSizeValues == {0, 1, 2, TwoTo12, TwoTo12 + 1}
OpenedSizes == {0, MiB}
MessageLengths == {9, MiB - 1}

\* the rotation of the files on disk: the loop over the backups from
\* max_files - 1 down to 1, the rename of the log file to .1, and the new,
\* empty log file
rotated_disk(disk, max_files, new_file) ==
    LET kept    == {i \in DOMAIN disk : i >= max_files /\ i >= 2}
        shifted == {i + 1 : i \in {j \in DOMAIN disk : 1 <= j /\ j <= max_files - 2}}
    IN  [i \in {0, 1} \cup shifted \cup kept |->
            IF i = 0 THEN new_file
            ELSE IF i = 1 THEN disk[0]
            ELSE IF i \in shifted THEN disk[i - 1]
            ELSE disk[i]]

\* void Logger::rotate_log_file() on an open stream
rotate_log_file(r) ==
    IF r.current_file_size_ < max_size_bytes(r.max_file_size_mb) THEN r
    ELSE [r EXCEPT !.disk = rotated_disk(@, r.max_files, r.files_created),
                   !.files_created = @ + 1,
                   !.current_file_size_ = 0]

\* the Logger has opened its log file, which is the only file of its name on
\* disk
RotationStart(max_files, max_file_size_mb, size) ==
    [max_files          |-> max_files,
     max_file_size_mb   |-> max_file_size_mb,
     current_file_size_ |-> size,
     disk               |-> [i \in {0} |-> 0],
     files_created      |-> 1,
     writes             |-> 0,
     last               |-> [rotated |-> FALSE, size_before |-> size,
                             size_after_rotate |-> size, file_before |-> 0]]

RotIdle ==
    \E max_files \in MaxFilesValues, mb \in MaxFileSizeValues, size \in OpenedSizes :
        rotation = RotationStart(max_files, mb, size)

RotFixed == rotation = RotationStart(2, 1, 0)

\* void Logger::write_to_file(const std::string& message)
WriteToFile ==
    /\ rotation.writes < MaxWrites
    /\ \E length \in MessageLengths :
          LET r == rotate_log_file(rotation)
          IN  rotation' =
                  [r EXCEPT
                      !.current_file_size_ = @ + length + 1,
                      !.writes = @ + 1,
                      !.last = [rotated           |-> r.files_created # rotation.files_created,
                                size_before       |-> rotation.current_file_size_,
                                size_after_rotate |-> r.current_file_size_,
                                file_before       |-> rotation.disk[0]]]
    /\ UNCHANGED notRotVars

RotNext == WriteToFile

-----------------------------------------------------------------------------
(* Specifications *)

PoolInit == PoolIdle /\ PathFixed /\ StatsIdle /\ SimIdle /\ OppFixed /\ LogIdle /\ CfgFixed /\ MainIdle /\ RotFixed
SpecPool == PoolInit /\ [][PoolNext]_vars

PathInit == PoolFixed /\ PathIdle /\ StatsIdle /\ SimIdle /\ OppFixed /\ LogIdle /\ CfgFixed /\ MainIdle /\ RotFixed
SpecPath == PathInit /\ [][PathNext]_vars

StatsInit == PoolFixed /\ PathFixed /\ StatsIdle /\ SimIdle /\ OppFixed /\ LogIdle /\ CfgFixed /\ MainIdle /\ RotFixed
SpecStats == StatsInit /\ [][StatsNext]_vars

SpecStrategy == StatsInit /\ [][StrategyNext]_vars

SimInit == PoolFixed /\ PathFixed /\ StatsIdle /\ SimIdle /\ OppFixed /\ LogIdle /\ CfgFixed /\ MainIdle /\ RotFixed
SpecSim == SimInit /\ [][SimNext]_vars

OppInit == PoolFixed /\ PathFixed /\ StatsIdle /\ SimIdle /\ OppIdle /\ LogIdle /\ CfgFixed /\ MainIdle /\ RotFixed
SpecOpp == OppInit /\ [][OppNext]_vars

\* one thread calls the Logger
LogInit == PoolFixed /\ PathFixed /\ StatsIdle /\ SimIdle /\ OppFixed /\ LogIdle /\ CfgFixed /\ MainIdle /\ RotFixed
SpecLogger == LogInit /\ [][LogNext]_vars

\* two threads call the Logger
LogConcurrentInit ==
    PoolFixed /\ PathFixed /\ StatsIdle /\ SimIdle /\ OppFixed /\ LogConcurrent /\ CfgFixed /\ MainIdle /\ RotFixed
SpecLoggerThreads == LogConcurrentInit /\ [][LogNext]_vars

CfgInit ==
    PoolFixed /\ PathFixed /\ StatsIdle /\ SimIdle /\ OppFixed /\ LogIdle /\ CfgIdle /\ MainIdle /\ RotFixed
SpecConfig == CfgInit /\ [][CfgNext]_vars

OverrideInit ==
    PoolFixed /\ PathFixed /\ StatsIdle /\ SimIdle /\ OppFixed /\ LogIdle /\ OverrideIdle /\ MainIdle /\ RotFixed
SpecOverride == OverrideInit /\ [][OverrideNext]_vars

MainInit ==
    PoolFixed /\ PathFixed /\ StatsIdle /\ SimIdle /\ OppFixed /\ LogIdle /\ CfgFixed /\ MainIdle /\ RotFixed
SpecMain == MainInit /\ [][MainNext]_vars

\* the main thread is scheduled: main takes its next step when it has one
SpecMainFair == SpecMain /\ WF_vars(MainStep)

RotInit ==
    PoolFixed /\ PathFixed /\ StatsIdle /\ SimIdle /\ OppFixed /\ LogIdle /\ CfgFixed /\ MainIdle /\ RotIdle
SpecRotation == RotInit /\ [][RotNext]_vars

\* the threads of the process are scheduled: the main loop takes its step
\* when it has one, and the join of an exited loop returns
SpecSimFair == SpecSim /\ WF_vars(MainLoopStep)

-----------------------------------------------------------------------------
(* Operators used to state the properties *)

Positive(x) == DLt(D(0), x)

\* the reserve of the token a call buys
BoughtReserve(c) == IF c.dir THEN pair.reserve1 ELSE pair.reserve0

RECURSIVE SumOf(_)
SumOf(q) == IF q = <<>> THEN D(0) ELSE DAdd(Head(q), SumOf(Tail(q)))

MeanOf(q) == DDiv(SumOf(q), D(Len(q)))

\* the elements of q that no element of q is below / above
Smallest(q) == {q[i] : i \in {j \in 1..Len(q) : \A m \in 1..Len(q) : ~DLt(q[m], q[j])}}
Largest(q)  == {q[i] : i \in {j \in 1..Len(q) : \A m \in 1..Len(q) : ~DLt(q[j], q[m])}}

-----------------------------------------------------------------------------
(* TokenPair properties, checked under SpecPool *)

C2_PriceIsReserve0OverReserve1 ==
    price # NoValue =>
        /\ Positive(pair.reserve1) => DMul(price, pair.reserve1) = pair.reserve0
        /\ pair.reserve1 = D(0) => price = D(0)

\* C2 witness: the price of a pool with positive, unequal reserves was computed.
C2_Witness ==
    /\ price # NoValue
    /\ Positive(pair.reserve0) /\ Positive(pair.reserve1)
    /\ pair.reserve0 # pair.reserve1

\* C3: with a zero reserve on either side every calculate_output_amount call
\* returns 0 and calculate_price returns 0; and for all non-negative reserves
\* and inputs no call divides by zero (a zero divisor would give inf or NaN).
C3_ZeroReservesGiveZero ==
    /\ (pair.reserve0 = D(0) \/ pair.reserve1 = D(0)) =>
          /\ \A c \in calls : c.output = D(0)
          /\ price # NoValue => price = D(0)
    /\ \A c \in calls : IsFin(c.output)
    /\ price # NoValue => IsFin(price)

\* C3 witness: on a pool with one zero reserve the price was computed and an
\* output amount was computed in each direction, one of them for a positive input.
C3_Witness ==
    /\ pair.reserve0 = D(0) \/ pair.reserve1 = D(0)
    /\ pair.reserve0 # pair.reserve1
    /\ price # NoValue
    /\ \E c \in calls, c2 \in calls : c.dir /\ ~c2.dir /\ Positive(c.input)

-----------------------------------------------------------------------------
(* StrategyStats properties, checked under SpecStats *)

\* C5: after n >= 1 update_success calls on fresh or reset stats,
\* successful_executions = n, total_profit_eth is the sum of the profits
\* passed and avg_profit_eth their arithmetic mean.
C5_SuccessTotalsAndMean ==
    Len(profits) >= 1 =>
        /\ stats.successful_executions = Len(profits)
        /\ stats.total_profit_eth = SumOf(profits)
        /\ stats.avg_profit_eth = MeanOf(profits)

\* C5 witness: the profits [1,2,3] were passed, giving avg 2.0 and 3 successes.
C5_Witness ==
    /\ profits = <<D(1), D(2), D(3)>>
    /\ stats.avg_profit_eth = D(2)
    /\ stats.successful_executions = 3

\* C6: after a non-empty sequence of update_success calls on fresh or reset
\* stats, min_profit_eth is the smallest and max_profit_eth the largest
\* profit passed, for every sequence of profit values.
C6_MinMaxProfit ==
    Len(profits) >= 1 =>
        /\ stats.min_profit_eth \in Smallest(profits)
        /\ stats.max_profit_eth \in Largest(profits)

\* C7: after reset(), called once or twice in a row from any state reached by
\* update_success / update_failure, the stats are the same: every counter,
\* total and average is zero and the object equals freshly constructed stats.
C7_ResetIdempotent ==
    resets.count >= 1 =>
        /\ stats = StrategyStatsInit
        /\ stats.opportunities_detected = 0 /\ stats.opportunities_executed = 0
        /\ stats.successful_executions = 0 /\ stats.failed_executions = 0
        /\ stats.total_profit_eth = D(0) /\ stats.total_gas_used_eth = D(0)
        /\ stats.avg_execution_time_us = D(0) /\ stats.avg_profit_eth = D(0)
        /\ stats.avg_detection_latency_us = D(0)
        /\ stats.avg_execution_latency_us = D(0)
        /\ stats.success_rate = D(0)

\* C7 witness: reset() was called twice in a row on stats that updates had changed.
C7_Witness == resets.count = 2 /\ resets.dirty

-----------------------------------------------------------------------------
(* ArbitragePath properties, checked under SpecPath *)

\* C8: is_valid() returns true only for a path with at least 3 tokens, at
\* least 2 pools, a closed cycle (first token = last token) and
\* expected_profit_eth > 0; it is false when first and last token differ.
C8_ValidOnlyIfCycleCloses ==
    (valid.called /\ valid.result) =>
        /\ Len(path.tokens) >= 3
        /\ Len(path.pairs) >= 2
        /\ path.tokens[1] = path.tokens[Len(path.tokens)]
        /\ Positive(path.expected_profit_eth)

-----------------------------------------------------------------------------
(* Execution-attempt properties, checked under SpecStrategy *)

\* C9: after any interleaved sequence of update_success and update_failure
\* calls, avg_execution_time_us is the arithmetic mean of all execution times
\* passed so far.
C9_AvgExecutionTimeIsMean ==
    Len(times) >= 1 => stats.avg_execution_time_us = MeanOf(times)

-----------------------------------------------------------------------------
(* Simulator lifecycle properties, checked under SpecSim and SpecSimFair *)

\* start() has just returned and no initialize() has succeeded before it
StartedUninitialized == simHist.op = "start" /\ ~simHist.everInitialized

StopWaitsForTick ==
    /\ (simHist.op = "stop" /\ simHist.before = "RUNNING") => sim.state_ = "STOPPING"
    /\ sim.state_ = "STOPPED" => sim.loop \in {"none", "exited"}

\* a tick ends only by completing (or by its own fault), stop() leaves the
\* loop where it is, and no tick starts once the stop flag is set
NoTickInterruptedOrStarted ==
    /\ (sim.loop = "tick" /\ sim'.loop # "tick") =>
          \/ sim'.loop = "boundary" /\ sim'.ticks = sim.ticks + 1
          \/ simHist'.op = "handle_error"
    /\ simHist'.op = "stop" => sim'.loop = sim.loop
    /\ (sim.stop_requested_ /\ sim.loop # "tick") => sim'.loop # "tick"

\* C12 (as stated): stop() while RUNNING moves to STOPPING and reaches
\* STOPPED only after the tick in flight has completed: no tick is
\* interrupted, no new tick starts after the stop flag is observed at a tick
\* boundary, and STOPPED is eventually reached.
C12_StopReachesStopped ==
    /\ []StopWaitsForTick
    /\ [][NoTickInterruptedOrStarted]_vars
    /\ (sim.state_ = "STOPPING") ~> (sim.state_ = "STOPPED")

\* C12 (amended): the same, except that the pipeline eventually reaches
\* STOPPED or, when an exception escapes the tick in flight, ERROR.
C12_StopReachesStoppedOrError ==
    /\ []StopWaitsForTick
    /\ [][NoTickInterruptedOrStarted]_vars
    /\ (sim.state_ = "STOPPING") ~> (sim.state_ \in {"STOPPED", "ERROR"})

\* C12 witness: stop() arrived during a tick, the tick completed, the loop
\* left at the boundary and the pipeline is STOPPED.
C12_Witness ==
    /\ sim.state_ = "STOPPED"
    /\ sim.stop_requested_
    /\ sim.loop = "exited"
    /\ sim.ticks >= 1
    /\ simHist.op = "wait_for_completion"

\* start(), pause(), resume() and stop() called in ERROR leave ERROR, and a
\* RUNNING pipeline has its components initialized
ErrorIgnoresControls ==
    /\ (simHist.op \in {"start", "pause", "resume", "stop"} /\ simHist.before = "ERROR")
          => sim.state_ = "ERROR"
    /\ sim.state_ = "RUNNING" => sim.components = "ready"

\* the only step out of ERROR is initialize(), and it leads to INITIALIZING
ErrorLeftOnlyByInitialize ==
    sim.state_ = "ERROR" =>
        \/ sim'.state_ = "ERROR"
        \/ simHist'.op = "initialize" /\ sim'.state_ = "INITIALIZING"

\* C13: once the pipeline is in ERROR, no operation other than a fresh
\* initialize() changes its state: start(), pause(), resume() and stop() leave
\* it in ERROR, and it is never RUNNING again without an intervening
\* successful initialize().
C13_ErrorAbsorbing ==
    /\ []ErrorIgnoresControls
    /\ [][ErrorLeftOnlyByInitialize]_vars

\* C13 witness: resume() was called on a pipeline that a faulting tick had
\* driven to ERROR, and the pipeline is still in ERROR.
C13_Witness ==
    /\ sim.state_ = "ERROR"
    /\ sim.loop = "exited"
    /\ simHist.op = "resume"
    /\ simHist.before = "ERROR"

-----------------------------------------------------------------------------
(* Opportunity properties, checked under SpecOpp *)

\* x <= y on two doubles that are numbers, by cross-multiplication
NumLe(x, y) == IsFin(x) /\ IsFin(y) /\ x.n * y.d <= y.n * x.d

\* C14: is_profitable() is true exactly when net_profit_eth > 0 (strictly),
\* is_within_slippage_limit(m) exactly when slippage_percent <= m, and
\* is_within_gas_limit(g) exactly when gas_price_gwei <= g.
C14_OpportunityPredicates ==
    /\ oppCall.fn = "is_profitable" =>
          (oppCall.result <=>
              NumLe(D(0), opp.net_profit_eth) /\ opp.net_profit_eth # D(0))
    /\ oppCall.fn = "is_within_slippage_limit" =>
          (oppCall.result <=> NumLe(opp.slippage_percent, oppCall.arg))
    /\ oppCall.fn = "is_within_gas_limit" =>
          (oppCall.result <=> NumLe(D(opp.gas_price_gwei), oppCall.arg))

\* C14 witness: is_profitable() returned false on a net profit of exactly 0.
C14_Witness ==
    /\ oppCall.fn = "is_profitable"
    /\ opp.net_profit_eth = D(0)
    /\ ~oppCall.result

-----------------------------------------------------------------------------
(* Logger properties, checked under SpecLogger and SpecLoggerThreads *)

\* thread t has made a log() call that has passed or failed the test of log()
Logged(t) ==
    logThreads[t].op = "log" /\ logThreads[t].pc \in {"log_internal", "idle"}

\* C15: a message is emitted if and only if the logger is initialized and the
\* message's level is at or above the configured level; after set_level(L)
\* the configured level is L, so later messages below L are dropped and those
\* at or above L are emitted; nothing is emitted before initialize() or after
\* shutdown().
C15_EmittedIffInitializedAndEnabled ==
    \A t \in DOMAIN logThreads :
        /\ Logged(t) =>
              /\ logThreads[t].passed <=>
                    /\ logger.initialized_
                    /\ logThreads[t].level >= logger.config_.level
              /\ logThreads[t].passed => ~logHist.shutdownExited
        /\ (logThreads[t].op = "set_level" /\ logThreads[t].pc = "idle") =>
              logger.config_.level = logThreads[t].level

\* C16: shutdown() called on an initialized logger always returns, never
\* blocking on the logger's own mutex, and leaves the logger uninitialized, so
\* that a subsequent initialize(config) takes effect.
C16_ShutdownReturnsUninitialized ==
    \A t \in DOMAIN logThreads :
        /\ logThreads[t].pc # "deadlocked"
        /\ (logThreads[t].op = "shutdown" /\ logThreads[t].pc = "idle") =>
              ~logger.initialized_

\* thread t is inside log_internal
InLogInternal(t) ==
    logThreads[t].pc \in {"log_internal", "initialize_log_internal",
                          "shutdown_log_internal"}

\* thread t is reading initialized_ and config_.level
ReadsLevel(t) == logThreads[t].pc = "log_check"

\* thread t is writing config_.level, or config_ and initialized_
WritesLevel(t) ==
    \/ logThreads[t].pc = "set_level"
    \/ logThreads[t].pc = "initialize" /\ ~logger.initialized_

\* C17: at most one thread is inside log_internal at any time, and no thread
\* reads initialized_ or config_.level while another thread writes them.
C17_LoggerThreadSafe ==
    \A t1, t2 \in DOMAIN logThreads :
        t1 # t2 =>
            /\ ~(InLogInternal(t1) /\ InLogInternal(t2))
            /\ ~(ReadsLevel(t1) /\ WritesLevel(t2))

-----------------------------------------------------------------------------
(* ConfigManager properties, checked under SpecConfig *)

\* C18: validate() succeeds after load_default_config(), and validate()
\* throws on a freshly constructed ConfigManager on which no configuration
\* has been explicitly loaded.
C18_ValidateThrowsOnFreshManager ==
    cfgCall.op = "validate" =>
        /\ cfg.last_load = "load_default_config" => ~cfgCall.threw
        /\ cfg.last_load = "none" => cfgCall.threw

\* x > 0 on an unsigned field
IsPositive(x) == x.top > 0 \/ x.v > 0

\* the invariants of a loaded configuration
LoadedInvariants(c) ==
    /\ IsPositive(c.performance.thread_pool_size)
    /\ IsPositive(c.performance.queue_size)
    /\ c.blockchain.ethereum.rpc_url # ""
    /\ c.monitoring.metrics.enabled => IsPositive(c.monitoring.metrics.port)
    /\ c.simulation.synthetic_data.enabled =>
          IsPositive(c.simulation.synthetic_data.transaction_rate)
    /\ \A name \in DOMAIN c.strategies :
          c.strategies[name].enabled =>
              /\ NumLe(D(0), c.strategies[name].min_profit_eth)
              /\ NumLe(D(0), c.strategies[name].max_slippage_percent)
              /\ NumLe(c.strategies[name].max_slippage_percent, D(100))
              /\ IsPositive(c.strategies[name].gas_limit)

\* the file gives a value that violates one of the invariants; a field the
\* file leaves out has the value ok
InputViolates(doc) ==
    LET perf    == Get(doc, "performance", <<>>)
        eth     == Get(Get(doc, "blockchain", <<>>), "ethereum", <<>>)
        metrics == Get(Get(doc, "monitoring", <<>>), "metrics", <<>>)
        sd      == Get(Get(doc, "simulation", <<>>), "synthetic_data", <<>>)
        strats  == Get(doc, "strategies", <<>>)
    IN  \/ Get(perf, "thread_pool_size", N(1)).v <= 0
        \/ Get(perf, "queue_size", N(1)).v <= 0
        \/ Get(eth, "rpc_url", "ok") = ""
        \/ Get(metrics, "enabled", FALSE) /\ Get(metrics, "port", N(1)).v <= 0
        \/ Get(sd, "enabled", FALSE) /\ Get(sd, "transaction_rate", N(1)).v <= 0
        \/ \E name \in DOMAIN strats :
              /\ Get(strats[name], "enabled", FALSE)
              /\ \/ ~NumLe(D(0), Get(strats[name], "min_profit_eth", D(0)))
                 \/ ~NumLe(D(0), Get(strats[name], "max_slippage_percent", D(0)))
                 \/ ~NumLe(Get(strats[name], "max_slippage_percent", D(0)), D(100))
                 \/ Get(strats[name], "gas_limit", N(1)).v <= 0

\* C19: whenever load_config returns without error, the loaded configuration
\* has thread_pool_size > 0, queue_size > 0, a non-empty rpc_url, a metrics
\* port > 0 if metrics are enabled, a transaction_rate > 0 if synthetic data
\* is enabled, and for every enabled strategy min_profit_eth >= 0,
\* 0 <= max_slippage_percent <= 100 and gas_limit > 0; an input that violates
\* one of them makes load_config fail.
C19_LoadedConfigValid ==
    (cfgCall.op = "load_config" /\ ~cfgCall.threw) =>
        /\ LoadedInvariants(cfg.config)
        /\ ~InputViolates(cfgCall.doc)

\* C20: loading the output of to_json() back with from_json() leaves every
\* section and every strategy field unchanged, and to_json() always has the
\* keys simulation, performance, strategies and blockchain.
C20_JsonRoundTrip ==
    cfgCall.op = "from_json" =>
        /\ cfg.config = cfgCall.before
        /\ {"simulation", "performance", "strategies", "blockchain"}
              \subseteq DOMAIN cfgCall.doc

\* C20 witness: a configuration with two strategies, one with a gas_limit and
\* target lists that are not the defaults, and a mode that is not the default,
\* went through to_json() and from_json().
C20_Witness ==
    /\ cfgCall.op = "from_json"
    /\ DOMAIN cfg.config.strategies = {"arbitrage", "sandwich"}
    /\ cfg.config.strategies["sandwich"].gas_limit # StrategyConfigDefault.gas_limit
    /\ cfg.config.strategies["arbitrage"].target_dexes # <<>>
    /\ cfg.config.simulation.mode # ConfigDefault.simulation.mode

-----------------------------------------------------------------------------
(* Command line properties, checked under SpecOverride *)

\* C21: after override_config(cli), the effective simulation mode is the mode
\* given on the command line, for each of realtime, historical and synthetic
\* and for every mode loaded from the configuration file.
C21_CommandLineModeWins ==
    (cfgCall.op = "override_config" /\ cfgCall.args.mode # "none") =>
        ModeName[cfg.config.simulation.mode] = cfgCall.args.mode

\* C22: after override_config with a non-empty enabled_strategies list L,
\* get_enabled_strategies() returns exactly the names in L, the names the
\* configuration did not know having the default parameters; with an empty
\* list the enabled flag of every strategy is unchanged.
C22_EnabledStrategiesAreTheList ==
    cfgCall.op = "get_enabled_strategies" =>
        LET L      == cfgCall.cli.enabled_strategies
            before == cfgCall.before.strategies
            after  == cfg.config.strategies
        IN  IF L # <<>>
            THEN /\ Range(cfgCall.enabled) = Range(L)
                 /\ \A name \in DOMAIN after : after[name].enabled <=> name \in Range(L)
                 /\ \A name \in Range(L) \ DOMAIN before :
                       after[name] = [StrategyConfigDefault EXCEPT !.enabled = TRUE]
            ELSE /\ DOMAIN after = DOMAIN before
                 /\ \A name \in DOMAIN before :
                       after[name].enabled = before[name].enabled

\* C22 witness: a list that leaves out a strategy that was enabled and names
\* one the configuration did not have, and get_enabled_strategies() was called.
C22_Witness ==
    /\ cfgCall.op = "get_enabled_strategies"
    /\ cfgCall.cli.enabled_strategies # <<>>
    /\ \E name \in DOMAIN cfgCall.before.strategies :
          /\ cfgCall.before.strategies[name].enabled
          /\ name \notin Range(cfgCall.cli.enabled_strategies)
    /\ Range(cfgCall.cli.enabled_strategies) \ DOMAIN cfgCall.before.strategies # {}

-----------------------------------------------------------------------------
(* main() properties, checked under SpecMainFair *)

\* the calls main has made on the Simulator, in order
MainCalls ==
    LET mine == SelectSeq(mainProc.calls, LAMBDA c : c.by = "main")
    IN  [i \in DOMAIN mine |-> mine[i].call]

\* main has called stop() and then wait_for_completion()
MainStoppedAndWaited ==
    \E i, j \in DOMAIN MainCalls :
        i < j /\ MainCalls[i] = "stop" /\ MainCalls[j] = "wait_for_completion"

\* in a run that returned 0 main called initialize(), start(), stop(),
\* wait_for_completion(), and then export_results() exactly when export
\* formats were requested
ReturnedZeroInOrder ==
    mainProc.exit = "0" =>
        MainCalls = <<"initialize", "start", "stop", "wait_for_completion">>
                        \o (IF mainProc.export_formats # <<>>
                            THEN <<"export_results">> ELSE <<>>)

\* C23: in every run of main that returns 0 the simulator calls occur in the
\* order initialize(), start(), stop(), wait_for_completion(), then
\* export_results() only if export formats were requested; and once a signal
\* has set the shutdown flag, at any point of the run, main eventually leaves
\* its event loop and calls stop() and wait_for_completion().
C23_OrderedCallsAndShutdownOnSignal ==
    /\ []ReturnedZeroInOrder
    /\ mainProc.g_shutdown_requested ~> MainStoppedAndWaited

-----------------------------------------------------------------------------
(* Logger::initialize property, checked under SpecLogger *)

\* a step in which thread t leaves the body of initialize(config)
InitializeBodyStep(t) ==
    logThreads[t].pc = "initialize" /\ logThreads'[t].pc # "initialize"

\* C25: initialize(config2) on a logger that is already initialized, with no
\* shutdown() in between, leaves the active configuration (level, outputs),
\* the open file stream and the initialized flag as they were.
C25_SecondInitializeIsNoOp ==
    [][\A t \in DOMAIN logThreads :
          (InitializeBodyStep(t) /\ logger.initialized_) =>
              /\ logger'.config_ = logger.config_
              /\ logger'.file_open = logger.file_open
              /\ logger'.initialized_]_vars

\* C25 witness: an initialize() whose configuration differs from the active
\* one has returned on the initialized logger.
C25_Witness ==
    /\ logger.initialized_
    /\ logHist.ignoredInitialize = "different"
    /\ \E t \in DOMAIN logThreads :
          logThreads[t].pc = "idle" /\ logThreads[t].op = "initialize"

-----------------------------------------------------------------------------
(* ConfigManager::load_config failure, checked under SpecConfig *)

\* C27: if load_config(file) raises an error (file unreadable, or validate()
\* rejecting the contents), the ConfigManager holds exactly the configuration
\* it held before the call.
C27_FailedLoadChangesNothing ==
    (cfgCall.op = "load_config" /\ cfgCall.threw) => ~cfgCall.changed

-----------------------------------------------------------------------------
(* Log rotation properties, checked under SpecRotation *)

\* C24: after any sequence of log writes and rotations, for every max_files
\* value, the number of log files on disk (the log file and its numbered
\* backups) never exceeds max_files; and immediately after a rotation
\* current_file_size_ is 0 and the previous log file is backup .1.
C24_RotationKeepsMaxFiles ==
    /\ Cardinality(DOMAIN rotation.disk) <= rotation.max_files
    /\ rotation.last.rotated =>
          /\ rotation.last.size_after_rotate = 0
          /\ 1 \in DOMAIN rotation.disk
          /\ rotation.disk[1] = rotation.last.file_before

\* C26: the threshold rotate_log_file uses is max_file_size_mb * 1,048,576
\* bytes for every 32-bit max_file_size_mb, so no rotation happens while
\* current_file_size_ is below that many bytes (the sizes are compared in
\* whole MiB, the threshold being a multiple of 1,048,576).
C26_RotationThresholdExact ==
    rotation.writes > 0 =>
        /\ max_size_bytes(rotation.max_file_size_mb) % MiB = 0
        /\ max_size_bytes(rotation.max_file_size_mb) \div MiB = rotation.max_file_size_mb
        /\ rotation.last.rotated =>
              rotation.last.size_before \div MiB >= rotation.max_file_size_mb

====
